---------------------------- MODULE Spec2Model ----------------------------
(***************************************************************************)
(* Model of the bike-fit transfer calculator of pelotons                   *)
(* (calculateStemRequirements, calculateBikeSetup), of the report parser   *)
(* that feeds it (parseRetulPdf) and of the hook that holds the parsed     *)
(* fit (useBikeFit).                                                       *)
(*                                                                         *)
(* Numbers.  The program computes in IEEE doubles; the model computes in   *)
(* fixed point.  Angles are whole degrees.  A sine or cosine is an integer *)
(* count of 1/TrigScale.  A stem length before rounding, and the length    *)
(* bounds of the options, are integer counts of 1/LenScale mm.  Spacer and *)
(* frame contributions are counts of 1/TrigScale mm, gains and errors of   *)
(* a candidate are counts of 1/(LenScale*TrigScale) mm.  Math.round is     *)
(* floor(x + 1/2), as in ECMAScript.                                       *)
(***************************************************************************)
EXTENDS Integers, Sequences, FiniteSets, Bags, TLC

\* Resolution of Math.sin / Math.cos values and of unrounded lengths.
TrigScale == 10000
LenScale == 100

\* round(sin(d degrees) * TrigScale) for d = 0..90
SinTable ==
  << 0, 175, 349, 523, 698, 872, 1045, 1219, 1392, 1564,
     1736, 1908, 2079, 2250, 2419, 2588, 2756, 2924, 3090, 3256,
     3420, 3584, 3746, 3907, 4067, 4226, 4384, 4540, 4695, 4848,
     5000, 5150, 5299, 5446, 5592, 5736, 5878, 6018, 6157, 6293,
     6428, 6561, 6691, 6820, 6947, 7071, 7193, 7314, 7431, 7547,
     7660, 7771, 7880, 7986, 8090, 8192, 8290, 8387, 8480, 8572,
     8660, 8746, 8829, 8910, 8988, 9063, 9135, 9205, 9272, 9336,
     9397, 9455, 9511, 9563, 9613, 9659, 9703, 9744, 9781, 9816,
     9848, 9877, 9903, 9925, 9945, 9962, 9976, 9986, 9994, 9998,
     10000 >>

\* Math.sin((d * Math.PI) / 180), in 1/TrigScale
Sin(d) ==
  LET m == d % 360
  IN  IF m <= 90 THEN SinTable[m + 1]
      ELSE IF m <= 180 THEN SinTable[180 - m + 1]
      ELSE IF m <= 270 THEN -SinTable[m - 180 + 1]
      ELSE -SinTable[360 - m + 1]

\* Math.cos((d * Math.PI) / 180), in 1/TrigScale
Cos(d) == Sin(d + 90)

\* Math.abs
Abs(x) == IF x < 0 THEN -x ELSE x

\* n / d for d # 0, rounded down to a whole count
Quot(n, d) == IF d > 0 THEN n \div d ELSE (-n) \div (-d)

\* Math.round of a count x of 1/scale: floor(x/scale + 1/2)
Round(x, scale) == (2 * x + scale) \div (2 * scale)

---------------------------------------------------------------------------
\* Defaults of the options destructuring, and the literals of the search.
DefaultMaxStemLength == 140
DefaultMinStemLength == 60
DefaultMaxSpacers == 50
DefaultPreferredStemAngle == -6
DefaultHeadTubeAngle == 73
DefaultSeatTubeAngle == 73
SpacerStep == 5
MinStemAngle == -17
MaxStemAngle == 17
FallbackStemLength == 100
AchievableLimit == 10
NoteLimit == 5
\* the 0.1 of the near-zero guards on cos and sin, in 1/TrigScale
GuardLimit == TrigScale \div 10
\* the 0.5 per degree of anglePenalty, in 1/(LenScale*TrigScale)
AnglePenaltyPerDegree == (LenScale * TrigScale) \div 2

\* The options object of a call that passes none.
NoOptions == [field \in {} |-> 0]

\* The two ECMAScript values that are not finite numbers in this program:
\* NaN, and the undefined of a property that is not there.  Each is held as
\* an integer outside the range of every quantity of the model, and no
\* arithmetic is ever done on either: every operator tests for them first.
NaN == -2000000000
Undefined == -2000000001
IsNumber(x) == x # NaN /\ x # Undefined

\* rec.field, undefined when the property is not there
Field(rec, field) == IF field \in DOMAIN rec THEN rec[field] ELSE Undefined

\* A field of the options object, or its default when the caller left it out.
\* The two length bounds are held in 1/LenScale mm.
OptionOr(options, field, default) ==
  IF field \in DOMAIN options THEN options[field] ELSE default

Resolve(options) ==
  [ maxStemLength |-> OptionOr(options, "maxStemLength", DefaultMaxStemLength * LenScale),
    minStemLength |-> OptionOr(options, "minStemLength", DefaultMinStemLength * LenScale),
    maxSpacers |-> OptionOr(options, "maxSpacers", DefaultMaxSpacers),
    preferredStemAngle |-> OptionOr(options, "preferredStemAngle", DefaultPreferredStemAngle) ]

\* newFrame.headTubeAngle || 73
HeadTubeAngle(newFrame) ==
  IF newFrame.headTubeAngle = 0 THEN DefaultHeadTubeAngle ELSE newFrame.headTubeAngle

\* targetStack - frameStack, targetReach - frameReach (mm)
RequiredStackGain(fitPosition, newFrame) == fitPosition.handlebarStack - newFrame.stackMm
RequiredReachGain(fitPosition, newFrame) == fitPosition.handlebarReach - newFrame.reachMm

\* spacers * Math.sin(htaRad), spacers * Math.cos(htaRad), in 1/TrigScale mm
SpacerStackContrib(s, newFrame) == s * Sin(HeadTubeAngle(newFrame))
SpacerReachContrib(s, newFrame) == s * Cos(HeadTubeAngle(newFrame))

\* EffectiveAngle measured from the other side: 90 - headTubeAngle + stemAngle.
EffectiveAngleMirrored(newFrame, a) == 90 - HeadTubeAngle(newFrame) + a

\* headTubeAngle - 90 + stemAngle, degrees
EffectiveAngle(newFrame, a) == HeadTubeAngle(newFrame) - 90 + a

\* NearSingular with half the limit.
NearSingularNarrow(newFrame, a) ==
  Abs(Cos(EffectiveAngle(newFrame, a))) < GuardLimit \div 2

\* if (Math.abs(Math.cos(effectiveAngle)) < 0.1) continue
NearSingular(newFrame, a) == Abs(Cos(EffectiveAngle(newFrame, a))) < GuardLimit

\* StemLengthOf from the reach alone, without the average with the stack's
\* estimate.
StemLengthFromReachOnly(fitPosition, newFrame, s, a) ==
  Quot((RequiredReachGain(fitPosition, newFrame) * TrigScale
          - SpacerReachContrib(s, newFrame)) * LenScale,
       Cos(EffectiveAngle(newFrame, a)))

\* The averaged stem length of one (spacers, stemAngle) pair, in 1/LenScale mm.
\* Only evaluated when the pair is not near-singular.
StemLengthOf(fitPosition, newFrame, s, a) ==
  LET eff == EffectiveAngle(newFrame, a)
      stemStackNeeded ==
        RequiredStackGain(fitPosition, newFrame) * TrigScale - SpacerStackContrib(s, newFrame)
      stemReachNeeded ==
        RequiredReachGain(fitPosition, newFrame) * TrigScale - SpacerReachContrib(s, newFrame)
      stemLengthFromReach == Quot(stemReachNeeded * LenScale, Cos(eff))
      stemLengthFromStack ==
        IF Abs(Sin(eff)) > GuardLimit
        THEN Quot(stemStackNeeded * LenScale, Sin(eff))
        ELSE stemLengthFromReach
  IN  (stemLengthFromReach + stemLengthFromStack) \div 2

\* stemLength >= minStemLength && stemLength <= maxStemLength
InBounds(cfg, stemLength) ==
  stemLength >= cfg.minStemLength /\ stemLength <= cfg.maxStemLength

\* totalError + anglePenalty of a candidate, in 1/(LenScale*TrigScale) mm
ScoredError(fitPosition, newFrame, cfg, s, a, stemLength) ==
  LET eff == EffectiveAngle(newFrame, a)
      actualReachGain == SpacerReachContrib(s, newFrame) * LenScale + stemLength * Cos(eff)
      actualStackGain == SpacerStackContrib(s, newFrame) * LenScale + stemLength * Sin(eff)
      reachError ==
        Abs(actualReachGain - RequiredReachGain(fitPosition, newFrame) * LenScale * TrigScale)
      stackError ==
        Abs(actualStackGain - RequiredStackGain(fitPosition, newFrame) * LenScale * TrigScale)
      anglePenalty == Abs(a - cfg.preferredStemAngle) * AnglePenaltyPerDegree
  IN  reachError + stackError + anglePenalty

\* Improves with <= for <: a later candidate of equal score replaces the best.
ImprovesOrTies(best, scoredError) ==
  best = {} \/ \A b \in best : scoredError <= b.error

\* if (!bestSolution || scoredError < bestSolution.error)
Improves(best, scoredError) ==
  best = {} \/ \A b \in best : scoredError < b.error

\* TryCandidate that scores the candidate with its rounded stem length.
TryCandidateRoundedScore(fitPosition, newFrame, cfg, best, s, a) ==
  IF NearSingular(newFrame, a) THEN best
  ELSE LET stemLength == StemLengthOf(fitPosition, newFrame, s, a)
           rounded == Round(stemLength, LenScale)
           scoredError ==
             ScoredError(fitPosition, newFrame, cfg, s, a, rounded * LenScale)
       IN  IF InBounds(cfg, stemLength) /\ Improves(best, scoredError)
           THEN {[ spacers |-> s,
                   stemLength |-> rounded,
                   stemAngle |-> a,
                   error |-> scoredError ]}
           ELSE best

\* One pass of the inner loop body: the value of bestSolution after trying
\* the pair (s, a).  bestSolution is a set, empty for null.
TryCandidate(fitPosition, newFrame, cfg, best, s, a) ==
  IF NearSingular(newFrame, a) THEN best
  ELSE IF ~IsNumber(Field(fitPosition, "handlebarReach"))
  THEN \* requiredReachGain is NaN, and so are stemLength and scoredError:
       \* neither comparison of the bounds check is true, and NaN < error
       \* is false, so the pair is taken exactly when bestSolution is null
       IF best = {}
       THEN {[ spacers |-> s, stemLength |-> NaN, stemAngle |-> a, error |-> NaN ]}
       ELSE best
  ELSE LET stemLength == StemLengthOf(fitPosition, newFrame, s, a)
           scoredError == ScoredError(fitPosition, newFrame, cfg, s, a, stemLength)
       IN  IF InBounds(cfg, stemLength) /\ Improves(best, scoredError)
           THEN {[ spacers |-> s,
                   stemLength |-> Round(stemLength, LenScale),
                   stemAngle |-> a,
                   error |-> scoredError ]}
           ELSE best


---------------------------------------------------------------------------
\* A note: its text with the numbers it names left as placeholders, and
\* those numbers in order.
Note(text, nums) == [text |-> text, nums |-> nums]

NoteNotAchievable ==
  Note("Exact fit position may not be achievable with standard components", <<>>)
\* NoteStack with 'higher' and 'lower' the other way round.
NoteStackFlipped(stackDelta) ==
  Note(IF stackDelta > 0 THEN "Handlebar will be {n}mm lower than original fit"
       ELSE "Handlebar will be {n}mm higher than original fit",
       <<Round(Abs(stackDelta), TrigScale)>>)

\* Math.abs(delta).toFixed(0): delta in 1/TrigScale mm
NoteStack(stackDelta) ==
  Note(IF stackDelta > 0 THEN "Handlebar will be {n}mm higher than original fit"
       ELSE "Handlebar will be {n}mm lower than original fit",
       <<Round(Abs(stackDelta), TrigScale)>>)
NoteReach(reachDelta) ==
  Note(IF reachDelta > 0 THEN "Handlebar will be {n}mm further than original fit"
       ELSE "Handlebar will be {n}mm closer than original fit",
       <<Round(Abs(reachDelta), TrigScale)>>)
NoteNearestCommon(nearestCommon) == Note("Nearest common stem length: {n}mm", <<nearestCommon>>)

commonStemLengths == <<70, 80, 90, 100, 110, 120, 130, 140>>

\* NearestCommon that always answers with the first catalog length.
NearestCommonFirst(len) == commonStemLengths[1]

\* commonStemLengths.reduce((prev, curr) =>
\*   Math.abs(curr - len) < Math.abs(prev - len) ? curr : prev), from index i on
RECURSIVE ReduceNearest(_, _, _)
ReduceNearest(prev, i, len) ==
  IF i > Len(commonStemLengths) THEN prev
  ELSE LET curr == commonStemLengths[i]
       IN  ReduceNearest(IF Abs(curr - len) < Abs(prev - len) THEN curr ELSE prev,
                         i + 1, len)

NearestCommon(len) == ReduceNearest(commonStemLengths[1], 2, len)

\* achievableStack - targetStack and achievableReach - targetReach of a
\* (spacers, stemLength in mm, stemAngle) triple, in 1/TrigScale mm
StackDeltaOf(fitPosition, newFrame, s, len, a) ==
  (newFrame.stackMm - fitPosition.handlebarStack) * TrigScale
    + SpacerStackContrib(s, newFrame) + len * Sin(EffectiveAngle(newFrame, a))
ReachDeltaOf(fitPosition, newFrame, s, len, a) ==
  (newFrame.reachMm - fitPosition.handlebarReach) * TrigScale
    + SpacerReachContrib(s, newFrame) + len * Cos(EffectiveAngle(newFrame, a))

\* FallbackResult with the spacer stack left at 0 instead of maxSpacers.
FallbackResultNoSpacers(fitPosition, newFrame, cfg) ==
  [ stemLength |-> FallbackStemLength,
    stemAngle |-> cfg.preferredStemAngle,
    spacerStack |-> 0,
    stackDelta |-> StackDeltaOf(fitPosition, newFrame, 0,
                                FallbackStemLength, cfg.preferredStemAngle),
    reachDelta |-> ReachDeltaOf(fitPosition, newFrame, 0,
                                FallbackStemLength, cfg.preferredStemAngle),
    isAchievable |-> FALSE,
    notes |-> <<NoteNotAchievable>> ]

\* The return of the !bestSolution branch.  Deltas are in 1/TrigScale mm.
FallbackResult(fitPosition, newFrame, cfg) ==
  [ stemLength |-> FallbackStemLength,
    stemAngle |-> cfg.preferredStemAngle,
    spacerStack |-> cfg.maxSpacers,
    stackDelta |-> StackDeltaOf(fitPosition, newFrame, cfg.maxSpacers,
                                FallbackStemLength, cfg.preferredStemAngle),
    reachDelta |-> ReachDeltaOf(fitPosition, newFrame, cfg.maxSpacers,
                                FallbackStemLength, cfg.preferredStemAngle),
    isAchievable |-> FALSE,
    notes |-> <<NoteNotAchievable>> ]

\* RoundDelta with Math.floor for Math.round.
RoundDeltaFloor(delta) == (delta \div TrigScale) * TrigScale

\* Math.round(delta), kept in 1/TrigScale mm
RoundDelta(delta) == Round(delta, TrigScale) * TrigScale

\* isAchievable: Math.abs(stackDelta) <= 10 && Math.abs(reachDelta) <= 10
WithinLimit(stackDelta, reachDelta) ==
  Abs(stackDelta) <= AchievableLimit * TrigScale
    /\ Abs(reachDelta) <= AchievableLimit * TrigScale

\* BestResult with isAchievable taken from the rounded deltas.
BestResultRoundedLimit(fitPosition, newFrame, b) ==
  LET stackDelta == StackDeltaOf(fitPosition, newFrame, b.spacers, b.stemLength, b.stemAngle)
      reachDelta == ReachDeltaOf(fitPosition, newFrame, b.spacers, b.stemLength, b.stemAngle)
      nearestCommon == NearestCommon(b.stemLength)
      notes ==
        (IF Abs(stackDelta) > NoteLimit * TrigScale THEN <<NoteStack(stackDelta)>> ELSE <<>>)
        \o (IF Abs(reachDelta) > NoteLimit * TrigScale THEN <<NoteReach(reachDelta)>> ELSE <<>>)
        \o (IF nearestCommon # b.stemLength THEN <<NoteNearestCommon(nearestCommon)>> ELSE <<>>)
  IN  [ stemLength |-> b.stemLength,
        stemAngle |-> b.stemAngle,
        spacerStack |-> b.spacers,
        stackDelta |-> RoundDelta(stackDelta),
        reachDelta |-> RoundDelta(reachDelta),
        isAchievable |-> WithinLimit(RoundDelta(stackDelta), RoundDelta(reachDelta)),
        notes |-> notes ]

\* The return built from bestSolution b when b.stemLength is NaN: both
\* deltas are NaN, no comparison with them is true, and the reduce keeps
\* its first element.
NaNResult(b) ==
  [ stemLength |-> NaN,
    stemAngle |-> b.stemAngle,
    spacerStack |-> b.spacers,
    stackDelta |-> NaN,
    reachDelta |-> NaN,
    isAchievable |-> FALSE,
    notes |-> <<NoteNearestCommon(commonStemLengths[1])>> ]

\* The return built from bestSolution b.
BestResult(fitPosition, newFrame, b) ==
  IF b.stemLength = NaN THEN NaNResult(b) ELSE
  LET stackDelta == StackDeltaOf(fitPosition, newFrame, b.spacers, b.stemLength, b.stemAngle)
      reachDelta == ReachDeltaOf(fitPosition, newFrame, b.spacers, b.stemLength, b.stemAngle)
      nearestCommon == NearestCommon(b.stemLength)
      notes ==
        (IF Abs(stackDelta) > NoteLimit * TrigScale THEN <<NoteStack(stackDelta)>> ELSE <<>>)
        \o (IF Abs(reachDelta) > NoteLimit * TrigScale THEN <<NoteReach(reachDelta)>> ELSE <<>>)
        \o (IF nearestCommon # b.stemLength THEN <<NoteNearestCommon(nearestCommon)>> ELSE <<>>)
  IN  [ stemLength |-> b.stemLength,
        stemAngle |-> b.stemAngle,
        spacerStack |-> b.spacers,
        stackDelta |-> RoundDelta(stackDelta),
        reachDelta |-> RoundDelta(reachDelta),
        isAchievable |-> WithinLimit(stackDelta, reachDelta),
        notes |-> notes ]

\* The inner loop from stem angle a on, for one spacer height: the value
\* of bestSolution when it ends.
RECURSIVE SearchAngles(_, _, _, _, _, _)
SearchAngles(fitPosition, newFrame, cfg, best, s, a) ==
  IF a > MaxStemAngle THEN best
  ELSE LET next == TryCandidate(fitPosition, newFrame, cfg, best, s, a)
       IN  IF next = best
           THEN SearchAngles(fitPosition, newFrame, cfg, best, s, a + 1)
           ELSE SearchAngles(fitPosition, newFrame, cfg, next, s, a + 1)

\* The outer loop from spacer height s on.
RECURSIVE SearchSpacers(_, _, _, _, _)
SearchSpacers(fitPosition, newFrame, cfg, best, s) ==
  IF s > cfg.maxSpacers THEN best
  ELSE LET next == SearchAngles(fitPosition, newFrame, cfg, best, s, MinStemAngle)
       IN  IF next = best
           THEN SearchSpacers(fitPosition, newFrame, cfg, best, s + SpacerStep)
           ELSE SearchSpacers(fitPosition, newFrame, cfg, next, s + SpacerStep)

\* calculateStemRequirements as a function of its arguments
calculateStemRequirements(fitPosition, newFrame, options) ==
  LET cfg == Resolve(options)
      best == SearchSpacers(fitPosition, newFrame, cfg, {}, 0)
  IN  IF best = {} THEN FallbackResult(fitPosition, newFrame, cfg)
      ELSE BestResult(fitPosition, newFrame, CHOOSE b \in best : TRUE)


---------------------------------------------------------------------------
\* calculateBikeSetup.  An optional field of the frame that the caller left
\* out is missing from the record's domain.

\* Math.tan((1 * Math.PI) / 180), in 1/TanScale
TanScale == 1000000
TanOneDegree == 17455

\* x || fallback for an optional number x of record rec
FieldOr(rec, field, fallback) ==
  IF field \in DOMAIN rec /\ rec[field] # 0 THEN rec[field] ELSE fallback

\* SaddleAngleOf without the || 0.
SaddleAngleRaw(fitPosition) == Field(fitPosition, "saddleAngle")

\* fitData.fitPosition.saddleAngle || 0
SaddleAngleOf(fitPosition) == FieldOr(fitPosition, "saddleAngle", 0)

\* The projection angle with the fit's effective angle consulted first.
ProjectionAngleFitFirst(fitPosition, newFrame) ==
  FieldOr(fitPosition, "effectiveSeatTubeAngle",
          FieldOr(newFrame, "seatTubeAngle", DefaultSeatTubeAngle))

\* const seatTubeAngle = newFrame.seatTubeAngle || effectiveSTA || 73
ProjectionAngle(fitPosition, newFrame) ==
  FieldOr(newFrame, "seatTubeAngle",
          FieldOr(fitPosition, "effectiveSeatTubeAngle", DefaultSeatTubeAngle))

\* seatpostExtension: {} for null.  The seat tube angle is
\* newFrame.seatTubeAngle || effectiveSTA || 73.
SeatpostExtension(fitPosition, newFrame) ==
  IF FieldOr(newFrame, "seatTubeLengthMm", 0) = 0 THEN {}
  ELSE IF ~IsNumber(Field(fitPosition, "saddleHeight")) THEN {NaN}
  ELSE LET seatTubeAngle == ProjectionAngle(fitPosition, newFrame)
           projectedSaddleHeight ==
             Quot(fitPosition.saddleHeight * TrigScale * LenScale, Sin(seatTubeAngle))
       IN  {Round(projectedSaddleHeight - newFrame.seatTubeLengthMm * LenScale, LenScale)}

LowExtension == 50
HighExtension == 200

\* SeatpostWarnings without the test for a high extension.
SeatpostWarningsLowOnly(extension) ==
  IF extension = {} THEN <<>>
  ELSE LET e == CHOOSE x \in extension : TRUE
       IN  IF e # NaN /\ e < LowExtension
           THEN <<Note("Low seatpost extension ({n}mm) - check minimum insertion depth", <<e>>)>>
           ELSE <<>>

SeatpostWarnings(extension) ==
  IF extension = {} THEN <<>>
  ELSE LET e == CHOOSE x \in extension : TRUE
       IN  IF e = NaN THEN <<>> ELSE
           (IF e < LowExtension
            THEN <<Note("Low seatpost extension ({n}mm) - check minimum insertion depth", <<e>>)>>
            ELSE <<>>)
           \o (IF e > HighExtension
               THEN <<Note("High seatpost extension ({n}mm) - consider a longer seat tube", <<e>>)>>
               ELSE <<>>)

\* frameSTA, staDifference (degrees) and setbackDifference (1/TanScale mm)
FrameSTA(newFrame) == FieldOr(newFrame, "seatTubeAngle", DefaultSeatTubeAngle)
StaDifference(fitPosition, newFrame) ==
  IF IsNumber(Field(fitPosition, "effectiveSeatTubeAngle"))
  THEN fitPosition.effectiveSeatTubeAngle - FrameSTA(newFrame)
  ELSE NaN
\* SetbackDifference without the saddle height: staDifference * tan(1 degree).
SetbackDifferenceNoHeight(fitPosition, newFrame) ==
  IF IsNumber(StaDifference(fitPosition, newFrame))
  THEN StaDifference(fitPosition, newFrame) * TanOneDegree
  ELSE NaN

SetbackDifference(fitPosition, newFrame) ==
  IF IsNumber(StaDifference(fitPosition, newFrame))
       /\ IsNumber(Field(fitPosition, "saddleHeight"))
  THEN StaDifference(fitPosition, newFrame) * (fitPosition.saddleHeight * TanOneDegree)
  ELSE NaN

OffsetLarge == 15
OffsetSmall == 8

\* The seatpost offset branch: <<seatpostOffsetNeeded, notes>>.  A
\* comparison with NaN is false, so a NaN difference takes no branch.
SeatpostOffset(fitPosition, newFrame) ==
  LET frameSTA == FrameSTA(newFrame)
      effectiveSTA == Field(fitPosition, "effectiveSeatTubeAngle")
      staDifference == StaDifference(fitPosition, newFrame)
      setbackDifference == SetbackDifference(fitPosition, newFrame)
  IN  IF IsNumber(staDifference) /\ 2 * Abs(staDifference) > 1
             /\ IsNumber(setbackDifference)
      THEN IF setbackDifference > OffsetLarge * TanScale
           THEN <<25, <<Note("Frame STA ({n}) is steeper than fit ({n}) - use 25mm setback seatpost",
                             <<frameSTA, effectiveSTA>>)>> >>
           ELSE IF setbackDifference > OffsetSmall * TanScale
           THEN <<20, <<Note("Frame STA ({n}) is steeper than fit ({n}) - use 20mm setback seatpost",
                             <<frameSTA, effectiveSTA>>)>> >>
           ELSE IF setbackDifference < -OffsetLarge * TanScale
           THEN <<0, <<Note("Frame STA ({n}) is slacker than fit ({n}) - use 0mm offset seatpost, may need forward saddle position",
                            <<frameSTA, effectiveSTA>>)>> >>
           ELSE <<0, <<>> >>
      ELSE <<0, <<>> >>

ForwardSaddleLimit == 50

SaddleNotes(fitPosition) ==
  IF IsNumber(Field(fitPosition, "saddleSetback"))
       /\ Abs(fitPosition.saddleSetback) < ForwardSaddleLimit
  THEN <<Note("Forward saddle position - ensure saddle rails allow this adjustment", <<>>)>>
  ELSE <<>>

\* `${make} ${model} ${size}` of originalBike, {} for undefined
OriginalFitBike(fitData) ==
  IF "originalBike" \in DOMAIN fitData
  THEN {<<fitData.originalBike.make, " ", fitData.originalBike.model, " ",
          fitData.originalBike.size>>}
  ELSE {}

OriginalFitDate(fitData) ==
  IF "fitDate" \in DOMAIN fitData THEN {fitData.fitDate} ELSE {}

\* BikeSetupResult with the calculator's notes ahead of the solver's.
BikeSetupResultOwnFirst(fitData, newFrame, stem) ==
  LET fitPosition == fitData.fitPosition
      offset == SeatpostOffset(fitPosition, newFrame)
      seatpostExtension == SeatpostExtension(fitPosition, newFrame)
      notes == offset[2] \o SaddleNotes(fitPosition)
  IN  [ stem |-> stem,
        saddleHeight |-> Field(fitPosition, "saddleHeight"),
        seatpostExtension |-> seatpostExtension,
        saddleSetback |-> Field(fitPosition, "saddleSetback"),
        saddleAngle |-> SaddleAngleOf(fitPosition),
        effectiveSeatTubeAngle |-> Field(fitPosition, "effectiveSeatTubeAngle"),
        seatpostOffsetNeeded |-> offset[1],
        originalFitBike |-> OriginalFitBike(fitData),
        originalFitDate |-> OriginalFitDate(fitData),
        notes |-> notes \o stem.notes,
        warnings |-> SeatpostWarnings(seatpostExtension) ]

\* The return of calculateBikeSetup, given the stem the solver returned.
BikeSetupResult(fitData, newFrame, stem) ==
  LET fitPosition == fitData.fitPosition
      offset == SeatpostOffset(fitPosition, newFrame)
      seatpostExtension == SeatpostExtension(fitPosition, newFrame)
      notes == offset[2] \o SaddleNotes(fitPosition)
  IN  [ stem |-> stem,
        saddleHeight |-> Field(fitPosition, "saddleHeight"),
        seatpostExtension |-> seatpostExtension,
        saddleSetback |-> Field(fitPosition, "saddleSetback"),
        saddleAngle |-> SaddleAngleOf(fitPosition),
        effectiveSeatTubeAngle |-> Field(fitPosition, "effectiveSeatTubeAngle"),
        seatpostOffsetNeeded |-> offset[1],
        originalFitBike |-> OriginalFitBike(fitData),
        originalFitDate |-> OriginalFitDate(fitData),
        notes |-> stem.notes \o notes,
        warnings |-> SeatpostWarnings(seatpostExtension) ]

\* calculateBikeSetup as a function of its arguments
calculateBikeSetup(fitData, newFrame) ==
  BikeSetupResult(fitData, newFrame,
                  calculateStemRequirements(fitData.fitPosition, newFrame, NoOptions))

---------------------------------------------------------------------------
\* parseRetulPdf.  The text of a report is held as what the patterns of the
\* parser capture in it: a record whose fields are the patterns that match,
\* each with the number (or words) it captures.  hbStackMatch and
\* hbReachMatch are the two "BB to center" patterns tried after the loop.
\* The rider's name and the components are parsed too but are read by
\* neither calculator; they are left out.

\* The keys of `measurements` that are stored in data.fitPosition as they are
FitKeys ==
  { "saddleHeight", "saddleSetback", "saddleAngle", "handlebarReach",
    "handlebarDrop", "effectiveSeatTubeAngle", "gripReach", "gripDrop",
    "barReach", "gripWidth", "gripAngle", "handlebarStack" }

\* data.fitPosition.handlebarStack after the loop and the hbStackMatch step
ParsedHandlebarStack(text) ==
  IF "hbStackMatch" \in DOMAIN text THEN text.hbStackMatch
  ELSE Field(text, "handlebarStack")

\* data.fitPosition.handlebarReach: the handlebarReach key, overwritten by
\* handlebarReachBB later in the loop, overwritten by hbReachMatch
ParsedHandlebarReach(text) ==
  IF "hbReachMatch" \in DOMAIN text THEN text.hbReachMatch
  ELSE IF "handlebarReachBB" \in DOMAIN text THEN text.handlebarReachBB
  ELSE Field(text, "handlebarReach")

\* data.fitPosition when the parser reaches its validation
ParsedFitPosition(text) ==
  LET keys ==
        ((DOMAIN text) \cap FitKeys)
          \cup (IF IsNumber(ParsedHandlebarStack(text)) THEN {"handlebarStack"} ELSE {})
          \cup (IF IsNumber(ParsedHandlebarReach(text)) THEN {"handlebarReach"} ELSE {})
  IN  [ k \in keys |->
          IF k = "handlebarStack" THEN ParsedHandlebarStack(text)
          ELSE IF k = "handlebarReach" THEN ParsedHandlebarReach(text)
          ELSE text[k] ]

\* data when the parser reaches its validation
ParsedData(text) ==
  LET top == (DOMAIN text) \cap {"fitDate", "originalBike", "frameStack", "frameReach"}
  IN  [ k \in top \cup {"fitPosition"} |->
          IF k = "fitPosition" THEN ParsedFitPosition(text) ELSE text[k] ]

\* !x for a number that may be missing: undefined and 0 are falsy
Falsy(x) == x = Undefined \/ x = 0

\* parseRetulPdf with the check of handlebarStack left out of the validation.
parseRetulPdfLax(text) ==
  LET data == ParsedData(text)
  IN  IF Falsy(Field(data, "frameStack")) \/ Falsy(Field(data, "frameReach"))
      THEN {}
      ELSE {data}

\* parseRetulPdf: {} for null, else the record it returns.
parseRetulPdf(text) ==
  LET data == ParsedData(text)
  IN  IF Falsy(Field(data, "frameStack")) \/ Falsy(Field(data, "frameReach"))
           \/ Falsy(Field(data.fitPosition, "handlebarStack"))
      THEN {}
      ELSE {data}

---------------------------------------------------------------------------
\* The calls the model makes.  Gains are target minus frame, in mm.
MaxStackSteps == 2
MaxReachSteps == 2
MaxCalls == 3

Frame(hta) == [stackMm |-> 530, reachMm |-> 390, headTubeAngle |-> hta]
Target(stackGain, reachGain) ==
  [handlebarStack |-> 530 + stackGain, handlebarReach |-> 390 + reachGain]

\* A call of calculateStemRequirements(fit, frame, opts).
Call(fit, frame, opts) ==
  [ fn |-> "calculateStemRequirements", fitData |-> {},
    fitPosition |-> fit, newFrame |-> frame, options |-> opts ]

\* SetupCall with the solver called with a maxSpacers option of its own.
SetupCallShortSpacers(fd, frame) ==
  [ fn |-> "calculateBikeSetup", fitData |-> {fd},
    fitPosition |-> fd.fitPosition, newFrame |-> frame,
    options |-> [maxSpacers |-> 20] ]

\* A call of calculateBikeSetup(fd, frame); it calls the solver with
\* fd.fitPosition, the frame and no options.
SetupCall(fd, frame) ==
  [ fn |-> "calculateBikeSetup", fitData |-> {fd},
    fitPosition |-> fd.fitPosition, newFrame |-> frame, options |-> NoOptions ]

StackGains == {30 * k : k \in -MaxStackSteps..MaxStackSteps}
ReachGains == {100 * k : k \in 0..MaxReachSteps} \cup {10, 200}

\* Calls with the default options over a grid of frames and targets.
GridCalls ==
  {Call(Target(sg, rg), Frame(hta), NoOptions) :
     sg \in StackGains, rg \in ReachGains, hta \in {72, 73, 74}}

\* Overridden options; minStemLength and maxStemLength in 1/LenScale mm.
OptionSets ==
  { [maxSpacers |-> 12],
    [maxSpacers |-> -5],
    [preferredStemAngle |-> 0],
    [minStemLength |-> 8010],
    [minStemLength |-> 15000],
    [maxStemLength |-> 12000, minStemLength |-> 8000,
     maxSpacers |-> 20, preferredStemAngle |-> -10],
    [maxSpacers |-> 0, preferredStemAngle |-> 0] }

OptionCalls ==
  {Call(t, Frame(hta), opts) :
     t \in {Target(0, 0), Target(-50, 60), Target(0, 200)},
     hta \in {0, 72, 90}, opts \in OptionSets}

\* Targets whose best pair leaves a delta between 5 and 5.5 mm.
NoteCalls ==
  { Call(Target(-10, 50), Frame(73), NoOptions),
    Call(Target(-70, 90), Frame(72), NoOptions),
    Call(Target(0, 190), Frame(73), NoOptions) }

\* Head tube angles that put stem angles of the search within the guard of
\* line 844: -5..5 with 180 degrees, -15..-5 with 10 degrees.
SingularCalls ==
  { Call(Target(-100, 0), Frame(180), NoOptions),
    Call(Target(100, 0), Frame(180), NoOptions),
    Call(Target(0, 100), Frame(180), NoOptions),
    Call(Target(-130, 0), Frame(10), NoOptions) }

StemCalls == GridCalls \cup OptionCalls \cup NoteCalls \cup SingularCalls

\* Fit records and frames with seat tube data, for calculateBikeSetup.
FitRecord(stackGain, reachGain, effectiveSTA) ==
  [ fitPosition |->
      [ handlebarStack |-> 530 + stackGain, handlebarReach |-> 390 + reachGain,
        saddleHeight |-> 750, saddleSetback |-> -60, saddleAngle |-> -2,
        effectiveSeatTubeAngle |-> effectiveSTA ],
    frameStack |-> 530, frameReach |-> 390,
    fitDate |-> "2024-03-01",
    originalBike |-> [make |-> "Canyon", model |-> "Ultimate", size |-> "M"] ]

SeatFrame(hta, seatTubeAngle, seatTubeLengthMm) ==
  [ stackMm |-> 530, reachMm |-> 390, headTubeAngle |-> hta,
    seatTubeAngle |-> seatTubeAngle, seatTubeLengthMm |-> seatTubeLengthMm ]

\* The text of a complete report: every measurement the calculators read.
ReportText(stackGain, reachGain, saddleHeight, saddleSetback, saddleAngle, effectiveSTA) ==
  [ fitDate |-> "2024-03-01",
    originalBike |-> [make |-> "Canyon", model |-> "Ultimate", size |-> "M"],
    frameStack |-> 530, frameReach |-> 390,
    handlebarStack |-> 530 + stackGain, handlebarReach |-> 390 + reachGain,
    handlebarDrop |-> -80,
    saddleHeight |-> saddleHeight, saddleSetback |-> saddleSetback,
    saddleAngle |-> saddleAngle, effectiveSeatTubeAngle |-> effectiveSTA ]

\* A text in which the patterns of `keys` find nothing.
Without(text, keys) == [k \in (DOMAIN text) \ keys |-> text[k]]

\* A text with further matches.
With(text, more) ==
  [k \in (DOMAIN text) \cup (DOMAIN more) |->
     IF k \in DOMAIN more THEN more[k] ELSE text[k]]

FullText == ReportText(0, 0, 750, -60, -2, 76)

\* Reports the parser accepts.
AcceptedTexts ==
  { FullText,
    ReportText(-30, 100, 750, -30, 0, 74),
    ReportText(0, 300, 900, -60, -2, 71),
    ReportText(0, 0, 750, -60, -2, 73),
    Without(FullText, {"saddleHeight"}),
    Without(FullText, {"effectiveSeatTubeAngle"}),
    Without(FullText, {"saddleSetback", "saddleAngle"}),
    Without(FullText, {"handlebarReach"}),
    Without(FullText, {"fitDate", "originalBike"}),
    With(FullText, [hbStackMatch |-> 560, handlebarReachBB |-> 400]) }

\* Reports the parser rejects.
RejectedTexts ==
  { Without(FullText, {"handlebarStack"}),
    Without(FullText, {"frameStack"}),
    With(FullText, [frameReach |-> 0]) }

\* Frames with and without the two optional seat tube fields.
SetupFrames ==
  { Frame(73),
    SeatFrame(73, 73, 520), SeatFrame(73, 73, 700), SeatFrame(73, 73, 760),
    SeatFrame(72, 75, 700),
    With(Frame(73), [seatTubeLengthMm |-> 700]),
    With(Frame(73), [seatTubeAngle |-> 74]) }

\* calculateBikeSetup on every accepted report and every frame.
SetupCalls ==
  {SetupCall(fd, frame) :
     fd \in UNION {parseRetulPdf(text) : text \in AcceptedTexts},
     frame \in SetupFrames}

\* The calls that are repeated and interleaved.
RepeatCalls ==
  { Call(Target(0, 0), Frame(73), NoOptions),
    Call(Target(-30, 100), Frame(72), NoOptions),
    Call(Target(60, 0), Frame(73), [maxSpacers |-> 12]),
    SetupCall(FitRecord(0, 0, 76), SeatFrame(73, 73, 520)),
    SetupCall(FitRecord(-30, 100, 74), SeatFrame(72, 73, 700)) }

---------------------------------------------------------------------------
VARIABLES
  fn,             \* the function that was called
  fitData,        \* argument of calculateBikeSetup: {} or the fit record
  fitPosition,    \* argument of the solver: the target position
  newFrame,       \* argument: the frame geometry
  options,        \* argument of the solver: the options object
  pc,             \* "search" inside the loops, "done" after the solver's
                  \* return, "setupDone" after calculateBikeSetup's return
  spacers,        \* outer loop variable
  stemAngle,      \* inner loop variable
  bestSolution,   \* {} for null, else a one-element set
  tried,          \* how many times the body of the inner loop was entered
  result,         \* {} before the solver's return, else its StemCalculation
  setup,          \* {} before calculateBikeSetup's return, else its result
  log,            \* the calls made before this one, with what they returned
  parked,         \* {} or the activation of a second caller that is not running
  hookFitData,    \* useBikeFit: fitData, {} for null
  loading,        \* useBikeFit: loading
  error,          \* useBikeFit: error, {} for null
  inFlight,       \* parseFitFile calls waiting for extractPdfText, per file
  lastCall,       \* {} or what the last calculateStem / calculateSetup did
  failedSince,    \* a parseFitFile failed and none has succeeded since
  user,           \* useAuth: {} when nobody is logged in, else the user
  storedState,    \* sessionStorage rwgps_oauth_state, {} when not there
  storedRedirect, \* sessionStorage rwgps_redirect_uri, {} when not there
  connects,       \* how many states connect has generated
  callbacks,      \* how many times handleOAuthCallback was called
  exchanges,      \* the token exchange requests sent, in order
  outcome,        \* how the last handleOAuthCallback ended
  connection,     \* useRwgps: connection, {} for null
  rwgpsError      \* useRwgps: error, {} for null

args == <<fn, fitData, fitPosition, newFrame, options>>
locals == <<pc, spacers, stemAngle, bestSolution, tried, result, setup>>
hookVars == <<hookFitData, loading, error, inFlight, lastCall, failedSince>>
rwgpsVars == <<user, storedState, storedRedirect, connects, callbacks, exchanges,
               outcome, connection, rwgpsError>>
hooks == <<hookVars, rwgpsVars>>
vars == <<fn, fitData, fitPosition, newFrame, options,
          pc, spacers, stemAngle, bestSolution, tried, result, setup, log,
          parked, hookVars, rwgpsVars>>

cfgNow == Resolve(options)

\* The state in which call c starts.
Starts(c) ==
  /\ fn = c.fn
  /\ fitData = c.fitData
  /\ fitPosition = c.fitPosition
  /\ newFrame = c.newFrame
  /\ options = c.options
  /\ pc = "search"
  /\ spacers = 0
  /\ stemAngle = MinStemAngle
  /\ bestSolution = {}
  /\ tried = 0
  /\ result = {}
  /\ setup = {}

\* useBikeFit as it is mounted: the three useState initial values, no
\* parseFitFile under way, no calculation asked for yet.
HookMounted ==
  /\ hookFitData = {}
  /\ loading = FALSE
  /\ error = {}
  /\ inFlight = EmptyBag
  /\ lastCall = {}
  /\ failedSince = FALSE

\* useRwgps before anything happened: nobody logged in, sessionStorage empty.
RwgpsMounted ==
  /\ user = {}
  /\ storedState = {}
  /\ storedRedirect = {}
  /\ connects = 0
  /\ callbacks = 0
  /\ exchanges = <<>>
  /\ outcome = "none"
  /\ connection = {}
  /\ rwgpsError = {}

\* A calculator called directly: one caller, and the hooks left as mounted.
Alone == log = <<>> /\ parked = {} /\ HookMounted /\ RwgpsMounted

\* One call of calculateStemRequirements.
Init == Alone /\ \E c \in StemCalls : Starts(c)

\* TryAngle with the stem angle going up by two.
TryAngleSkipping ==
  /\ pc = "search"
  /\ spacers <= cfgNow.maxSpacers
  /\ stemAngle <= MaxStemAngle
  /\ bestSolution' =
       TryCandidate(fitPosition, newFrame, cfgNow, bestSolution, spacers, stemAngle)
  /\ stemAngle' = stemAngle + 2
  /\ tried' = tried + 1
  /\ UNCHANGED <<args, pc, spacers, result, setup, log, parked, hooks>>

\* One pass of the inner loop: try the pair (spacers, stemAngle).
TryAngle ==
  /\ pc = "search"
  /\ spacers <= cfgNow.maxSpacers
  /\ stemAngle <= MaxStemAngle
  /\ bestSolution' =
       TryCandidate(fitPosition, newFrame, cfgNow, bestSolution, spacers, stemAngle)
  /\ stemAngle' = stemAngle + 1
  /\ tried' = tried + 1
  /\ UNCHANGED <<args, pc, spacers, result, setup, log, parked, hooks>>

\* NextSpacers that leaves both loop variables where they are.
NextSpacersStuck ==
  /\ pc = "search"
  /\ spacers <= cfgNow.maxSpacers
  /\ stemAngle > MaxStemAngle
  /\ spacers' = spacers
  /\ stemAngle' = stemAngle
  /\ UNCHANGED <<args, tried, pc, bestSolution, result, setup, log, parked, hooks>>

\* The inner loop ends: spacers += 5, and the inner loop starts over.
NextSpacers ==
  /\ pc = "search"
  /\ spacers <= cfgNow.maxSpacers
  /\ stemAngle > MaxStemAngle
  /\ spacers' = spacers + SpacerStep
  /\ stemAngle' = MinStemAngle
  /\ UNCHANGED <<args, tried, pc, bestSolution, result, setup, log, parked, hooks>>

\* The outer loop has ended with bestSolution null.
ReturnFallback ==
  /\ pc = "search"
  /\ spacers > cfgNow.maxSpacers
  /\ bestSolution = {}
  /\ result' = {FallbackResult(fitPosition, newFrame, cfgNow)}
  /\ pc' = "done"
  /\ UNCHANGED <<args, tried, spacers, stemAngle, bestSolution, setup, log, parked, hooks>>

\* The outer loop has ended with a bestSolution.
ReturnBest ==
  /\ pc = "search"
  /\ spacers > cfgNow.maxSpacers
  /\ \E b \in bestSolution :
       result' = {BestResult(fitPosition, newFrame, b)}
  /\ pc' = "done"
  /\ UNCHANGED <<args, tried, spacers, stemAngle, bestSolution, setup, log, parked, hooks>>

\* calculateBikeSetup after the solver has returned its stem.
SetupReturn ==
  /\ fn = "calculateBikeSetup"
  /\ pc = "done"
  /\ \E fd \in fitData, stem \in result :
       setup' = {BikeSetupResult(fd, newFrame, stem)}
  /\ pc' = "setupDone"
  /\ UNCHANGED <<args, tried, spacers, stemAngle, bestSolution, result, log, parked, hooks>>

\* The called function has returned to its caller.
Finished ==
  \/ fn = "calculateStemRequirements" /\ pc = "done"
  \/ fn = "calculateBikeSetup" /\ pc = "setupDone"

\* What the caller received.
Output == IF fn = "calculateStemRequirements" THEN result ELSE setup

\* Entry with the previous call's bestSolution still in place, as if the
\* variable were shared between calls.
EntersKeepingBest(c) ==
  /\ fn' = c.fn
  /\ fitData' = c.fitData
  /\ fitPosition' = c.fitPosition
  /\ newFrame' = c.newFrame
  /\ options' = c.options
  /\ pc' = "search"
  /\ spacers' = 0
  /\ stemAngle' = MinStemAngle
  /\ bestSolution' = bestSolution
  /\ tried' = 0
  /\ result' = {}
  /\ setup' = {}

\* Entry of a call: the arguments are bound and every local starts afresh.
Enters(c) ==
  /\ fn' = c.fn
  /\ fitData' = c.fitData
  /\ fitPosition' = c.fitPosition
  /\ newFrame' = c.newFrame
  /\ options' = c.options
  /\ pc' = "search"
  /\ spacers' = 0
  /\ stemAngle' = MinStemAngle
  /\ bestSolution' = {}
  /\ tried' = 0
  /\ result' = {}
  /\ setup' = {}

\* A caller makes its next call after the previous one has returned.
CallAgain ==
  /\ Finished
  /\ Len(log) + 1 < MaxCalls
  /\ log' = Append(log, [call |-> args, out |-> Output])
  /\ \E c \in RepeatCalls : Enters(c)
  /\ UNCHANGED <<parked, hooks>>

Next == TryAngle \/ NextSpacers \/ ReturnFallback \/ ReturnBest

Spec == Init /\ [][Next]_vars

\* The loops are sequential code: a step that can be taken is taken.
FairSpec == Spec /\ WF_vars(Next)

\* One call of calculateBikeSetup.
SetupInit == Alone /\ \E c \in SetupCalls : Starts(c)

SetupNext == Next \/ SetupReturn

SetupSpec == SetupInit /\ [][SetupNext]_vars

---------------------------------------------------------------------------
\* Two independent callers.  Every name the two functions assign is a
\* parameter, a const or a let of the call, so each caller has its own copy
\* of all of them; the caller that is not running keeps its copy in parked.
Activation ==
  [ fn |-> fn, fitData |-> fitData, fitPosition |-> fitPosition,
    newFrame |-> newFrame, options |-> options, pc |-> pc, spacers |-> spacers,
    stemAngle |-> stemAngle, bestSolution |-> bestSolution, tried |-> tried,
    result |-> result, setup |-> setup ]

\* The activation in which call c starts.
StartOf(c) ==
  [ fn |-> c.fn, fitData |-> c.fitData, fitPosition |-> c.fitPosition,
    newFrame |-> c.newFrame, options |-> c.options, pc |-> "search", spacers |-> 0,
    stemAngle |-> MinStemAngle, bestSolution |-> {}, tried |-> 0,
    result |-> {}, setup |-> {} ]

\* Resumes with bestSolution left as the other caller had it, as if it were
\* one variable of the module.
ResumesSharingBest(a) ==
  /\ fn' = a.fn
  /\ fitData' = a.fitData
  /\ fitPosition' = a.fitPosition
  /\ newFrame' = a.newFrame
  /\ options' = a.options
  /\ pc' = a.pc
  /\ spacers' = a.spacers
  /\ stemAngle' = a.stemAngle
  /\ bestSolution' = bestSolution
  /\ tried' = a.tried
  /\ result' = a.result
  /\ setup' = a.setup

\* The parked caller runs on, with its own parameters and locals.
Resumes(a) ==
  /\ fn' = a.fn
  /\ fitData' = a.fitData
  /\ fitPosition' = a.fitPosition
  /\ newFrame' = a.newFrame
  /\ options' = a.options
  /\ pc' = a.pc
  /\ spacers' = a.spacers
  /\ stemAngle' = a.stemAngle
  /\ bestSolution' = a.bestSolution
  /\ tried' = a.tried
  /\ result' = a.result
  /\ setup' = a.setup

\* The running caller stops where it is and the other one runs on.
Switch ==
  /\ \E a \in parked : Resumes(a)
  /\ parked' = {Activation}
  /\ UNCHANGED <<log, hooks>>

\* Calls short enough to be interleaved at every step, and one of
\* calculateBikeSetup.
ShortCalls ==
  { Call(Target(0, 200), Frame(90), [maxSpacers |-> 0, preferredStemAngle |-> 0]),
    Call(Target(-50, 60), Frame(72), [maxSpacers |-> 5, minStemLength |-> 8010]),
    Call(Target(0, 0), Frame(73), [maxSpacers |-> 0, minStemLength |-> 15000]) }
ConcurrentCalls == ShortCalls \cup {SetupCall(FitRecord(-30, 100, 74), SeatFrame(72, 73, 700))}

ConcurrentInit ==
  /\ log = <<>>
  /\ HookMounted
  /\ RwgpsMounted
  /\ \E c \in ConcurrentCalls : Starts(c)
  /\ \E d \in ShortCalls : parked = {StartOf(d)}

ConcurrentNext == Next \/ SetupReturn \/ Switch

ConcurrentSpec == ConcurrentInit /\ [][ConcurrentNext]_vars

---------------------------------------------------------------------------
\* useBikeFit.  A file is what extractPdfText does with it: it throws (an
\* Error with a message, or something that is not an Error: message = {}),
\* or it gives a text.
MaxInFlight == 2

TextFile(text) == [throws |-> FALSE, text |-> text]
ThrowingFile(message) == [throws |-> TRUE, message |-> message]

HookTexts ==
  {FullText, Without(FullText, {"saddleHeight"})}
    \cup RejectedTexts \cup {Without(FullText, {"frameReach"})}

HookFiles ==
  {TextFile(text) : text \in HookTexts}
    \cup {ThrowingFile({"Invalid PDF structure."}), ThrowingFile({})}

HookFrames == {Frame(73), SeatFrame(73, 73, 520)}

\* The fits the hook can hold.
HookFits == UNION {parseRetulPdf(text) : text \in HookTexts}

\* No calculator call is under way: the calculators' variables hold nothing.
CalculatorsIdle ==
  /\ fn = "none"
  /\ fitData = {}
  /\ fitPosition = NoOptions
  /\ newFrame = NoOptions
  /\ options = NoOptions
  /\ pc = "idle"
  /\ spacers = 0
  /\ stemAngle = MinStemAngle
  /\ bestSolution = {}
  /\ tried = 0
  /\ result = {}
  /\ setup = {}

calculators == <<args, locals, log, parked>>

\* The message of the Error thrown on a null parse (u for u-umlaut).
CouldNotParse ==
  "Could not parse fit data from PDF. Please ensure this is a Retul ZIN report."

\* err instanceof Error ? err.message : 'Failed to parse fit file'
MessageOf(file) ==
  IF file.throws
  THEN IF file.message = {} THEN "Failed to parse fit file"
       ELSE CHOOSE m \in file.message : TRUE
  ELSE CouldNotParse

\* The call ends in the catch block: extractPdfText threw, or
\* parseRetulPdf returned null and the handler threw.
Fails(file) == IF file.throws THEN TRUE ELSE parseRetulPdf(file.text) = {}

\* parseFitFile(file) up to its await of extractPdfText(file).
ParseStart(file) ==
  /\ BagCardinality(inFlight) < MaxInFlight
  /\ loading' = TRUE
  /\ error' = {}
  /\ inFlight' = inFlight (+) SetToBag({file})
  /\ UNCHANGED <<hookFitData, lastCall, failedSince, calculators, rwgpsVars>>

\* ParseFails with the stored fit dropped as well.
ParseFailsClearing(file) ==
  /\ BagIn(file, inFlight)
  /\ Fails(file)
  /\ error' = {MessageOf(file)}
  /\ loading' = FALSE
  /\ inFlight' = inFlight (-) SetToBag({file})
  /\ failedSince' = TRUE
  /\ hookFitData' = {}
  /\ UNCHANGED <<lastCall, calculators, rwgpsVars>>

\* parseFitFile(file) after the await, when extractPdfText threw or
\* parseRetulPdf returned null: the catch block and the finally block.
ParseFails(file) ==
  /\ BagIn(file, inFlight)
  /\ Fails(file)
  /\ error' = {MessageOf(file)}
  /\ loading' = FALSE
  /\ inFlight' = inFlight (-) SetToBag({file})
  /\ failedSince' = TRUE
  /\ UNCHANGED <<hookFitData, lastCall, calculators, rwgpsVars>>

\* parseFitFile(file) after the await, when the report parses:
\* setFitData(parsed) and the finally block.
ParseStores(file) ==
  /\ BagIn(file, inFlight)
  /\ ~file.throws
  /\ parseRetulPdf(file.text) # {}
  /\ hookFitData' = parseRetulPdf(file.text)
  /\ loading' = FALSE
  /\ inFlight' = inFlight (-) SetToBag({file})
  /\ failedSince' = FALSE
  /\ UNCHANGED <<error, lastCall, calculators, rwgpsVars>>

\* clearFitData that resets error alone.
clearOnlyError ==
  /\ error' = {}
  /\ UNCHANGED <<hookFitData, loading, inFlight, lastCall, failedSince, calculators, rwgpsVars>>

\* setFitData(null); setError(null)
clearFitData ==
  /\ hookFitData' = {}
  /\ error' = {}
  /\ UNCHANGED <<loading, inFlight, lastCall, failedSince, calculators, rwgpsVars>>

\* What a call of calculateStem or calculateSetup did: the frame it was
\* given, the fit it found in the hook, and the calculator call it made
\* ({} when it returned null without calling one).  The callbacks are
\* remade whenever fitData changes, so a call reads the fitData of the
\* state it is made in.
CallRecord(name, frame, invoked) ==
  [ fn |-> name, frame |-> frame, fit |-> hookFitData, invoked |-> invoked,
    afterFailure |-> failedSince ]

\* What the call returned to its caller: {} for null, else the value of
\* the calculator call it made.
Returns(call) ==
  { IF c.fn = "calculateStemRequirements"
    THEN calculateStemRequirements(c.fitPosition, c.newFrame, c.options)
    ELSE calculateBikeSetup(CHOOSE fd \in c.fitData : TRUE, c.newFrame) :
    c \in call.invoked }

\* if (!fitData?.fitPosition) return null;
\* return calculateStemRequirements(fitData.fitPosition, frameGeometry)
calculateStem(frame) ==
  /\ lastCall' =
       {CallRecord("calculateStem", frame,
                   {Call(fd.fitPosition, frame, NoOptions) : fd \in hookFitData})}
  /\ UNCHANGED <<hookFitData, loading, error, inFlight, failedSince, calculators, rwgpsVars>>

\* calculateSetup that also returns null while error is set.
calculateSetupUnlessError(frame) ==
  /\ lastCall' =
       {CallRecord("calculateSetup", frame,
                   IF error # {} THEN {}
                   ELSE {SetupCall(fd, frame) : fd \in hookFitData})}
  /\ UNCHANGED <<hookFitData, loading, error, inFlight, failedSince, calculators, rwgpsVars>>

\* if (!fitData) return null; return calculateBikeSetup(fitData, frameGeometry)
calculateSetup(frame) ==
  /\ lastCall' =
       {CallRecord("calculateSetup", frame, {SetupCall(fd, frame) : fd \in hookFitData})}
  /\ UNCHANGED <<hookFitData, loading, error, inFlight, failedSince, calculators, rwgpsVars>>

HookInit == CalculatorsIdle /\ log = <<>> /\ parked = {} /\ HookMounted /\ RwgpsMounted

HookNext ==
  \/ \E file \in HookFiles : ParseStart(file)
  \/ \E file \in HookFiles : ParseFails(file)
  \/ \E file \in HookFiles : ParseStores(file)
  \/ clearFitData
  \/ \E frame \in HookFrames : calculateStem(frame)
  \/ \E frame \in HookFrames : calculateSetup(frame)

HookSpec == HookInit /\ [][HookNext]_vars

---------------------------------------------------------------------------
\* useRwgps: connect and handleOAuthCallback, with the sessionStorage
\* entries they share.  crypto.randomUUID() gives a value no earlier call
\* gave: the n-th generated state is n.
MaxConnects == 2
MaxCallbacks == 3

Rider == "rider"
RedirectUri == "/settings/rwgps/callback"
\* a state value that connect never generated
ForgedState == MaxConnects + 1
Codes == {"code"}

\* The state parameter a callback can arrive with: none, one that connect
\* generated, or another one.
CallbackStates == {{}} \cup {{n} : n \in 1..MaxConnects} \cup {{ForgedState}}

\* The auth context changes user: somebody signs in, or signs out.
SignIn ==
  /\ user = {}
  /\ user' = {Rider}
  /\ UNCHANGED <<storedState, storedRedirect, connects, callbacks, exchanges,
                 outcome, connection, rwgpsError, calculators, hookVars>>

SignOut ==
  /\ user # {}
  /\ user' = {}
  /\ UNCHANGED <<storedState, storedRedirect, connects, callbacks, exchanges,
                 outcome, connection, rwgpsError, calculators, hookVars>>

\* connect(): without a user it sets error and returns; otherwise it stores
\* a fresh state and the redirect URI, then asks for the auth URL, and
\* either leaves for the RWGPS page (ok) or sets error to what was thrown.
connect(ok) ==
  IF user = {}
  THEN /\ rwgpsError' = {"Must be logged in to connect"}
       /\ UNCHANGED <<user, storedState, storedRedirect, connects, callbacks,
                      exchanges, outcome, connection, calculators, hookVars>>
  ELSE /\ connects < MaxConnects
       /\ connects' = connects + 1
       /\ storedState' = {connects + 1}
       /\ storedRedirect' = {RedirectUri}
       /\ rwgpsError' = IF ok THEN rwgpsError ELSE {"Request failed"}
       /\ UNCHANGED <<user, callbacks, exchanges, outcome, connection,
                      calculators, hookVars>>

\* The request of lines 295-307, as it was sent.
Exchange(code, redirectUri, userId, state) ==
  [ action |-> "oauth-callback", code |-> code, redirect_uri |-> redirectUri,
    user_id |-> userId, state |-> state ]

\* fetchConnection() with a user: error is reset and connection is what
\* the server answered, or not connected when the request failed.
Connections == {{[connected |-> TRUE]}, {[connected |-> FALSE]}}

\* handleOAuthCallback that leaves both sessionStorage entries in place.
handleOAuthCallbackKeeping(code, state, ok) ==
  /\ callbacks < MaxCallbacks
  /\ callbacks' = callbacks + 1
  /\ UNCHANGED <<storedState, storedRedirect>>
  /\ IF state # storedState
     THEN /\ outcome' = "Invalid OAuth state - possible CSRF attack"
          /\ UNCHANGED <<exchanges, connection, rwgpsError>>
     ELSE IF storedRedirect = {} \/ user = {}
     THEN /\ outcome' = "Missing required OAuth data"
          /\ UNCHANGED <<exchanges, connection, rwgpsError>>
     ELSE /\ exchanges' =
               Append(exchanges,
                      Exchange(code, CHOOSE uri \in storedRedirect : TRUE,
                               CHOOSE u \in user : TRUE, state))
          /\ IF ok
             THEN /\ outcome' = "returned"
                  /\ connection' \in Connections
                  /\ rwgpsError' = {}
             ELSE /\ outcome' = "OAuth callback failed"
                  /\ UNCHANGED <<connection, rwgpsError>>
  /\ UNCHANGED <<user, connects, calculators, hookVars>>

\* handleOAuthCallback(code, state): both sessionStorage entries are read
\* and removed, then the two checks throw or the exchange request is sent;
\* ok is whether the server accepted it.
handleOAuthCallback(code, state, ok) ==
  /\ callbacks < MaxCallbacks
  /\ callbacks' = callbacks + 1
  /\ storedState' = {}
  /\ storedRedirect' = {}
  /\ IF state # storedState
     THEN /\ outcome' = "Invalid OAuth state - possible CSRF attack"
          /\ UNCHANGED <<exchanges, connection, rwgpsError>>
     ELSE IF storedRedirect = {} \/ user = {}
     THEN /\ outcome' = "Missing required OAuth data"
          /\ UNCHANGED <<exchanges, connection, rwgpsError>>
     ELSE /\ exchanges' =
               Append(exchanges,
                      Exchange(code, CHOOSE uri \in storedRedirect : TRUE,
                               CHOOSE u \in user : TRUE, state))
          /\ IF ok
             THEN /\ outcome' = "returned"
                  /\ connection' \in Connections
                  /\ rwgpsError' = {}
             ELSE /\ outcome' = "OAuth callback failed"
                  /\ UNCHANGED <<connection, rwgpsError>>
  /\ UNCHANGED <<user, connects, calculators, hookVars>>

RwgpsInit == CalculatorsIdle /\ log = <<>> /\ parked = {} /\ HookMounted /\ RwgpsMounted

RwgpsNext ==
  \/ SignIn
  \/ SignOut
  \/ \E ok \in BOOLEAN : connect(ok)
  \/ \E code \in Codes, state \in CallbackStates, ok \in BOOLEAN :
       handleOAuthCallback(code, state, ok)

RwgpsSpec == RwgpsInit /\ [][RwgpsNext]_vars

\* Repeated and interleaved calls of both functions.
RepeatInit == Alone /\ \E c \in RepeatCalls : Starts(c)

RepeatNext == Next \/ SetupReturn \/ CallAgain

RepeatSpec == RepeatInit /\ [][RepeatNext]_vars

---------------------------------------------------------------------------
\* Vocabulary of the properties.

Returned == pc = "done"
OnFallbackPath == Returned /\ bestSolution = {}
OnBestPath == Returned /\ bestSolution # {}

\* The spacer heights and stem angles of the search.
SpacerGrid(cfg) == {s \in 0..cfg.maxSpacers : s % SpacerStep = 0}
StemAngles == MinStemAngle..MaxStemAngle

\* The pair (s, a) yields a stem length inside the length bounds.
IsCandidate(s, a) ==
  /\ ~NearSingular(newFrame, a)
  /\ InBounds(cfgNow, StemLengthOf(fitPosition, newFrame, s, a))

ScoreOf(s, a) ==
  ScoredError(fitPosition, newFrame, cfgNow, s, a, StemLengthOf(fitPosition, newFrame, s, a))

\* (s1, a1) is met before (s2, a2), or is the same pair.
MetNoLater(s1, a1, s2, a2) == s1 < s2 \/ (s1 = s2 /\ a1 <= a2)

\* Achieved minus target of the returned triple, in 1/TrigScale mm.
RecomputedStackDelta(r) ==
  StackDeltaOf(fitPosition, newFrame, r.spacerStack, r.stemLength, r.stemAngle)
RecomputedReachDelta(r) ==
  ReachDeltaOf(fitPosition, newFrame, r.spacerStack, r.stemLength, r.stemAngle)

HasNote(r, text) == \E i \in 1..Len(r.notes) : r.notes[i].text = text

IsCall(fit, frame, opts) == fitPosition = fit /\ newFrame = frame /\ options = opts

---------------------------------------------------------------------------
\* C1: every call of calculateStemRequirements ends, and ends with one
\* returned StemSolution: the fallback configuration when the search found
\* nothing, a solution built from the search's best candidate otherwise.
C1_Terminates ==
  <>(/\ pc = "done"
     /\ Cardinality(result) = 1
     /\ \A r \in result :
          IF bestSolution = {}
          THEN r.isAchievable = FALSE /\ r.stemLength = FallbackStemLength
          ELSE \E b \in bestSolution :
                 r.spacerStack = b.spacers /\ r.stemAngle = b.stemAngle)

\* C1 witness: calls have returned on both paths, with overridden options too.
C1_Witness ==
  /\ OnFallbackPath
  /\ options # NoOptions
  /\ \A r \in result : r.spacerStack = cfgNow.maxSpacers

\* C2: when no pair of the grid yields a stem length inside the bounds, the
\* result is exactly maxSpacers, 100 mm, preferredStemAngle, not achievable,
\* the deltas of that triple, and the note about standard components.
C2_Fallback ==
  (Returned /\ \A s \in SpacerGrid(cfgNow), a \in StemAngles : ~IsCandidate(s, a))
    => \A r \in result :
         /\ r.spacerStack = cfgNow.maxSpacers
         /\ r.stemLength = 100
         /\ r.stemAngle = cfgNow.preferredStemAngle
         /\ r.isAchievable = FALSE
         /\ r.stackDelta =
              (newFrame.stackMm * TrigScale
                 + cfgNow.maxSpacers * Sin(HeadTubeAngle(newFrame))
                 + 100 * Sin(HeadTubeAngle(newFrame) - 90 + cfgNow.preferredStemAngle))
              - fitPosition.handlebarStack * TrigScale
         /\ r.reachDelta =
              (newFrame.reachMm * TrigScale
                 + cfgNow.maxSpacers * Cos(HeadTubeAngle(newFrame))
                 + 100 * Cos(HeadTubeAngle(newFrame) - 90 + cfgNow.preferredStemAngle))
              - fitPosition.handlebarReach * TrigScale
         /\ HasNote(r, "Exact fit position may not be achievable with standard components")

\* C2 witness: a call with a positive maxSpacers has returned although the
\* grid held pairs, none of them inside the length bounds.
C2_Witness ==
  /\ Returned
  /\ cfgNow.maxSpacers > 0
  /\ \A s \in SpacerGrid(cfgNow), a \in StemAngles : ~IsCandidate(s, a)
  /\ \E r \in result : r.spacerStack = cfgNow.maxSpacers /\ ~r.isAchievable

\* C3: an achievable result has its stem length inside
\* [minStemLength, maxStemLength] and its spacer stack a multiple of 5 in
\* [0, maxSpacers].
C3_Bounds ==
  Returned =>
    \A r \in result :
      r.isAchievable =>
        /\ r.stemLength * LenScale >= cfgNow.minStemLength
        /\ r.stemLength * LenScale <= cfgNow.maxStemLength
        /\ r.spacerStack % 5 = 0
        /\ r.spacerStack >= 0
        /\ r.spacerStack <= cfgNow.maxSpacers

\* C4 as stated: on the non-fallback path isAchievable is true exactly when
\* both returned deltas are within 10 mm.
C4_Original ==
  OnBestPath =>
    \A r \in result :
      r.isAchievable <=>
        (Abs(r.stackDelta) <= 10 * TrigScale /\ Abs(r.reachDelta) <= 10 * TrigScale)

\* C4 amended: on the non-fallback path isAchievable is true exactly when
\* both deltas of the returned triple, before they are rounded, are within
\* 10 mm; so an achievable result has both returned deltas within 10 mm.
C4_Amended ==
  OnBestPath =>
    \A r \in result :
      /\ r.isAchievable <=>
           (/\ Abs(RecomputedStackDelta(r)) <= 10 * TrigScale
            /\ Abs(RecomputedReachDelta(r)) <= 10 * TrigScale)
      /\ r.isAchievable =>
           (Abs(r.stackDelta) <= 10 * TrigScale /\ Abs(r.reachDelta) <= 10 * TrigScale)

\* C4 witness: a result that is not achievable although both returned
\* deltas are within 10 mm, one of them above 10 mm before rounding.
C4_Witness ==
  /\ OnBestPath
  /\ \E r \in result :
       /\ ~r.isAchievable
       /\ Abs(r.stackDelta) <= 10 * TrigScale
       /\ Abs(r.reachDelta) <= 10 * TrigScale

\* C5 as stated: the deltas recomputed from the returned triple equal the
\* returned deltas (the model's resolution is coarser than 1e-6 mm, so
\* within 1e-6 mm is equality).
C5_Original ==
  Returned =>
    \A r \in result :
      /\ RecomputedStackDelta(r) = r.stackDelta
      /\ RecomputedReachDelta(r) = r.reachDelta

\* C5 amended: on the fallback path the recomputed deltas equal the
\* returned ones; on the non-fallback path the returned deltas are whole
\* millimetres within 0.5 mm of the recomputed ones.
C5_Amended ==
  Returned =>
    \A r \in result :
      IF bestSolution = {}
      THEN /\ RecomputedStackDelta(r) = r.stackDelta
           /\ RecomputedReachDelta(r) = r.reachDelta
      ELSE /\ r.stackDelta % TrigScale = 0
           /\ r.reachDelta % TrigScale = 0
           /\ 2 * Abs(RecomputedStackDelta(r) - r.stackDelta) <= TrigScale
           /\ 2 * Abs(RecomputedReachDelta(r) - r.reachDelta) <= TrigScale

\* C5 witness: a non-fallback result whose recomputed stack delta is not a
\* whole number of millimetres.
C5_Witness ==
  /\ OnBestPath
  /\ \E r \in result : RecomputedStackDelta(r) # r.stackDelta

\* C6: the returned (spacerStack, stemAngle) is a pair inside the length
\* bounds with the lowest scored error of the grid, and no pair of equal
\* score is met before it (spacer height ascending, then angle ascending).
C6_BestFirst ==
  OnBestPath =>
    \A r \in result :
      /\ r.spacerStack \in SpacerGrid(cfgNow)
      /\ r.stemAngle \in StemAngles
      /\ IsCandidate(r.spacerStack, r.stemAngle)
      /\ \A s \in SpacerGrid(cfgNow), a \in StemAngles :
           IsCandidate(s, a) =>
             /\ ScoreOf(r.spacerStack, r.stemAngle) <= ScoreOf(s, a)
             /\ ScoreOf(r.spacerStack, r.stemAngle) = ScoreOf(s, a)
                  => MetNoLater(r.spacerStack, r.stemAngle, s, a)

\* C6 witness: a returned pair that shares the lowest score with a pair met
\* later.
C6_Witness ==
  /\ OnBestPath
  /\ \E r \in result :
       \E s \in SpacerGrid(cfgNow), a \in StemAngles :
         /\ <<s, a>> # <<r.spacerStack, r.stemAngle>>
         /\ IsCandidate(s, a)
         /\ ScoreOf(s, a) = ScoreOf(r.spacerStack, r.stemAngle)

\* C8: zero gap (target 530/390 on frame 530/390 at 73 degrees, default
\* options): no spacers, a catalog stem length of 70 to 110 mm, achievable.
C8_ZeroGap ==
  (Returned /\ IsCall(Target(0, 0), Frame(73), NoOptions)) =>
    \A r \in result :
      /\ r.spacerStack = 0
      /\ r.stemLength \in {70, 80, 90, 100, 110}
      /\ r.isAchievable

\* C8 amended: in the zero-gap scenario the search settles on 15 mm of
\* spacers and a 66 mm stem at 11 degrees, which is no catalog length (the
\* note names 70), and the result is not achievable: the bar ends 7 mm
\* higher and 70 mm further than the target.
C8_Amended ==
  (Returned /\ IsCall(Target(0, 0), Frame(73), NoOptions)) =>
    \A r \in result :
      /\ r.spacerStack = 15
      /\ r.stemLength = 66
      /\ r.stemAngle = 11
      /\ ~r.isAchievable
      /\ r.stackDelta = 7 * TrigScale
      /\ r.reachDelta = 70 * TrigScale
      /\ r.notes[Len(r.notes)] = NoteNearestCommon(70)

\* C8 witness: the zero-gap call has returned.
C8_Witness ==
  /\ Returned
  /\ IsCall(Target(0, 0), Frame(73), NoOptions)
  /\ \E r \in result : r.spacerStack > 0

\* C9: moderate gap (target 560/400 on frame 530/390 at 73 degrees,
\* default options): achievable, with both deltas within 10 mm.
C9_ModerateGap ==
  (Returned /\ IsCall(Target(30, 10), Frame(73), NoOptions)) =>
    \A r \in result :
      /\ r.isAchievable
      /\ Abs(r.stackDelta) <= 10 * TrigScale
      /\ Abs(r.reachDelta) <= 10 * TrigScale

\* C9 amended: in the moderate-gap scenario the result is not achievable:
\* 45 mm of spacers and a 61 mm stem at 11 degrees leave the bar 7 mm higher
\* and 64 mm further than the target.
C9_Amended ==
  (Returned /\ IsCall(Target(30, 10), Frame(73), NoOptions)) =>
    \A r \in result :
      /\ ~r.isAchievable
      /\ r.spacerStack = 45
      /\ r.stemLength = 61
      /\ r.stemAngle = 11
      /\ r.stackDelta = 7 * TrigScale
      /\ r.reachDelta = 64 * TrigScale

\* C9 witness: the moderate-gap call has returned, its reach delta above
\* 10 mm.
C9_Witness ==
  /\ Returned
  /\ IsCall(Target(30, 10), Frame(73), NoOptions)
  /\ \E r \in result : Abs(r.reachDelta) > 10 * TrigScale

\* C10: infeasible gap (required reach gain 200 on frame 530/390 at 73
\* degrees, target stack 530 or 560, default options): not achievable, and
\* the notes hold the "may not be achievable" note.
C10_InfeasibleGap ==
  (/\ Returned
   /\ \/ IsCall(Target(0, 200), Frame(73), NoOptions)
      \/ IsCall(Target(30, 200), Frame(73), NoOptions)) =>
    \A r \in result :
      /\ ~r.isAchievable
      /\ HasNote(r, "Exact fit position may not be achievable with standard components")

\* C7: a call returns what every earlier call with the same function and
\* arguments returned, whatever was called in between.
C7_Deterministic ==
  Finished =>
    \A i \in 1..Len(log) : log[i].call = args => log[i].out = Output

\* C7 witness: a call has returned the same as an earlier call with its
\* arguments, with a call of the other function in between.
C7_Witness ==
  /\ Finished
  /\ Len(log) = 2
  /\ log[1].call = args
  /\ log[2].call # args
  /\ log[2].call[1] # fn
  /\ log[1].out = Output

---------------------------------------------------------------------------
\* calculateBikeSetup has returned; its argument and its result.
SetupReturned == fn = "calculateBikeSetup" /\ pc = "setupDone"
TheFit == (CHOOSE fd \in fitData : TRUE).fitPosition
TheSetup == CHOOSE su \in setup : TRUE
TheStem == CHOOSE st \in result : TRUE
Present(rec, field) == field \in DOMAIN rec

\* C11 as stated: calculateBikeSetup copies saddleHeight, saddleSetback and
\* saddleAngle of fit.fitPosition into its result unchanged, whatever the
\* frame.
C11_Original ==
  SetupReturned =>
    /\ TheSetup.saddleHeight = Field(TheFit, "saddleHeight")
    /\ TheSetup.saddleSetback = Field(TheFit, "saddleSetback")
    /\ TheSetup.saddleAngle = Field(TheFit, "saddleAngle")

\* C11 amended: saddleHeight and saddleSetback of the result are those of
\* fit.fitPosition as they are (undefined when the report did not give
\* them); saddleAngle is that of fit.fitPosition when it is given and not 0,
\* and 0 otherwise; none of the three depends on the frame.
C11_Amended ==
  SetupReturned =>
    /\ TheSetup.saddleHeight = Field(TheFit, "saddleHeight")
    /\ TheSetup.saddleSetback = Field(TheFit, "saddleSetback")
    /\ TheSetup.saddleAngle =
         (IF Present(TheFit, "saddleAngle") THEN TheFit.saddleAngle ELSE 0)

C11_Witness ==
  /\ SetupReturned
  /\ ~Present(TheFit, "saddleAngle")
  /\ TheSetup.saddleAngle = 0
  /\ Present(newFrame, "seatTubeAngle")

\* C12: the effectiveSeatTubeAngle of the result is that of fit.fitPosition
\* when it is present, else frame.seatTubeAngle when present, else 73.
C12_EffectiveAngle ==
  SetupReturned =>
    TheSetup.effectiveSeatTubeAngle =
      (IF Present(TheFit, "effectiveSeatTubeAngle") THEN TheFit.effectiveSeatTubeAngle
       ELSE IF Present(newFrame, "seatTubeAngle") THEN newFrame.seatTubeAngle
       ELSE 73)

\* C13: when frame.seatTubeLengthMm is present, seatpostExtension is
\* round(saddleHeight / sin(angle) - seatTubeLengthMm) with the fit's
\* effectiveSeatTubeAngle as the angle when present, else the frame's
\* seatTubeAngle, else 73 -- also when both are present and differ.
C13_Projection ==
  (SetupReturned /\ Present(newFrame, "seatTubeLengthMm") /\ Present(TheFit, "saddleHeight")) =>
    TheSetup.seatpostExtension =
      { Round(Quot(TheFit.saddleHeight * TrigScale * LenScale,
                   Sin(ProjectionAngleFitFirst(TheFit, newFrame)))
                - newFrame.seatTubeLengthMm * LenScale, LenScale) }

\* C14: with frame.seatTubeLengthMm present, warnings holds a seatpost
\* warning exactly when seatpostExtension < 50 or > 200 (the low one or the
\* high one, never both) and nothing otherwise; with it absent,
\* seatpostExtension is null and there is no warning.
C14_Warnings ==
  SetupReturned =>
    LET w == TheSetup.warnings
        ext == TheSetup.seatpostExtension
    IN  IF ~Present(newFrame, "seatTubeLengthMm")
        THEN ext = {} /\ w = <<>>
        ELSE /\ Cardinality(ext) = 1
             /\ \A e \in ext :
                  LET low == e # NaN /\ e < 50
                      high == e # NaN /\ e > 200
                  IN  /\ Len(w) = (IF low \/ high THEN 1 ELSE 0)
                      /\ low =>
                           w[1] = Note("Low seatpost extension ({n}mm) - check minimum insertion depth", <<e>>)
                      /\ high =>
                           w[1] = Note("High seatpost extension ({n}mm) - consider a longer seat tube", <<e>>)

C14_Witness ==
  /\ SetupReturned
  /\ Len(TheSetup.warnings) = 1
  /\ \E e \in TheSetup.seatpostExtension : e # NaN /\ e < 50 /\ e > 0

\* C15: seatpostOffsetNeeded is 25 when |staDifference| > 0.5 and
\* setbackDifference > 15, 20 when |staDifference| > 0.5 and
\* 8 < setbackDifference <= 15, and 0 otherwise, where staDifference =
\* effectiveSeatTubeAngle - (frame.seatTubeAngle ?? 73) and setbackDifference
\* = staDifference * saddleHeight * tan(1 deg); the > 15, > 8 and < -15
\* branches each append one note naming both angles; effective angle 76
\* on a 73 degree frame with saddleHeight 750 gives 25.
C15_Offset ==
  SetupReturned =>
    LET frameSTA == IF Present(newFrame, "seatTubeAngle") THEN newFrame.seatTubeAngle ELSE 73
        known == Present(TheFit, "effectiveSeatTubeAngle") /\ Present(TheFit, "saddleHeight")
        staDifference == TheFit.effectiveSeatTubeAngle - frameSTA
        setbackDifference == staDifference * TheFit.saddleHeight * TanOneDegree
        differs == known /\ 2 * Abs(staDifference) > 1
        large == differs /\ setbackDifference > 15 * TanScale
        small == differs /\ ~large /\ setbackDifference > 8 * TanScale
        slack == differs /\ setbackDifference < -15 * TanScale
        own == SubSeq(TheSetup.notes, Len(TheStem.notes) + 1, Len(TheSetup.notes))
        angleNotes == {i \in 1..Len(own) : Len(own[i].nums) = 2}
    IN  /\ TheSetup.seatpostOffsetNeeded = (IF large THEN 25 ELSE IF small THEN 20 ELSE 0)
        /\ Cardinality(angleNotes) = (IF large \/ small \/ slack THEN 1 ELSE 0)
        /\ \A i \in angleNotes : own[i].nums = <<frameSTA, TheFit.effectiveSeatTubeAngle>>
        /\ (known /\ TheFit.effectiveSeatTubeAngle = 76 /\ frameSTA = 73
              /\ TheFit.saddleHeight = 750) => TheSetup.seatpostOffsetNeeded = 25

C15_Witness ==
  /\ SetupReturned
  /\ TheFit.effectiveSeatTubeAngle = 76 /\ TheFit.saddleHeight = 750
  /\ Present(newFrame, "seatTubeAngle") /\ newFrame.seatTubeAngle = 73
  /\ TheSetup.seatpostOffsetNeeded = 25
  /\ HasNote(TheSetup, "Frame STA ({n}) is steeper than fit ({n}) - use 25mm setback seatpost")

\* C16: every numeric field of the returned StemSolution and
\* BikeSetupCalculation is a finite number, for every fit record that
\* parseRetulPdf accepts and every frame with finite stackMm, reachMm and
\* headTubeAngle.
C16_Finite ==
  SetupReturned =>
    /\ \A x \in { TheStem.stemLength, TheStem.stemAngle, TheStem.spacerStack,
                   TheStem.stackDelta, TheStem.reachDelta,
                   TheSetup.saddleHeight, TheSetup.saddleSetback, TheSetup.saddleAngle,
                   TheSetup.effectiveSeatTubeAngle, TheSetup.seatpostOffsetNeeded } :
         IsNumber(x)
    /\ \A e \in TheSetup.seatpostExtension : IsNumber(e)

\* C19: the notes of the BikeSetupCalculation are the solver's notes in
\* their order followed by the setup calculator's own notes; warnings are
\* kept apart; the notes of the embedded stem are those the solver returned.
C19_Merge ==
  SetupReturned =>
    LET sn == TheStem.notes
        own == SubSeq(TheSetup.notes, Len(sn) + 1, Len(TheSetup.notes))
        solverTexts ==
          { NoteNotAchievable.text, NoteNearestCommon(0).text,
            NoteStack(1).text, NoteStack(-1).text, NoteReach(1).text, NoteReach(-1).text }
    IN  /\ TheSetup.stem = TheStem
        /\ TheStem = calculateStemRequirements(TheFit, newFrame, NoOptions)
        /\ Len(TheSetup.notes) >= Len(sn)
        /\ SubSeq(TheSetup.notes, 1, Len(sn)) = sn
        /\ own = SeatpostOffset(TheFit, newFrame)[2] \o SaddleNotes(TheFit)
        /\ \A i \in 1..Len(own) : own[i].text \notin solverTexts
        /\ TheSetup.warnings = SeatpostWarnings(TheSetup.seatpostExtension)
        /\ \A i \in 1..Len(TheSetup.warnings), j \in 1..Len(TheSetup.notes) :
             TheSetup.warnings[i] # TheSetup.notes[j]

C19_Witness ==
  /\ SetupReturned
  /\ Len(TheStem.notes) >= 1
  /\ Len(TheSetup.notes) = Len(TheStem.notes) + 2
  /\ Len(TheSetup.warnings) = 1

---------------------------------------------------------------------------
\* The three fields the parser requires, in a fit record.
HasRequired(fd) ==
  /\ Present(fd, "frameStack") /\ fd.frameStack # 0
  /\ Present(fd, "frameReach") /\ fd.frameReach # 0
  /\ Present(fd.fitPosition, "handlebarStack") /\ fd.fitPosition.handlebarStack # 0

\* The text gives none of the patterns for the field something to match.
Lacks(text, field) ==
  IF field = "handlebarStack"
  THEN ~Present(text, "handlebarStack") /\ ~Present(text, "hbStackMatch")
  ELSE ~Present(text, field)

\* C17: parseRetulPdf returns null whenever frameStack, frameReach or
\* fitPosition.handlebarStack is missing, the hook stores only what the
\* parser returned, and so calculateStem and calculateSetup call the
\* calculators only with a fit record that has all three.
C17_RequiredFields ==
  /\ \A text \in HookTexts :
       (\E field \in {"frameStack", "frameReach", "handlebarStack"} : Lacks(text, field))
         => parseRetulPdf(text) = {}
  /\ \A fd \in hookFitData : HasRequired(fd)
  /\ \A call \in lastCall :
       /\ \A fd \in call.fit : HasRequired(fd)
       /\ \A c \in call.invoked :
            /\ Present(c.fitPosition, "handlebarStack")
            /\ \E fd \in call.fit : c.fitPosition = fd.fitPosition
            /\ c.fitData \subseteq call.fit

C17_Witness ==
  /\ error = {CouldNotParse}
  /\ \E call \in lastCall :
       /\ call.fn = "calculateStem"
       /\ call.invoked # {}
       /\ ~Present((CHOOSE fd \in call.fit : TRUE).fitPosition, "saddleHeight")

\* C18 as stated: from a failed parseFitFile until a later one succeeds,
\* calculateStem and calculateSetup return null without calling a
\* calculator, whatever parses came before the failure.
C18_Original ==
  \A call \in lastCall : call.afterFailure => call.invoked = {}

\* A parseFitFile call ends in failure in this step.
FailureStep ==
  /\ BagCardinality(inFlight') < BagCardinality(inFlight)
  /\ failedSince'

\* C18 amended: a parseFitFile call that fails sets error to the message of
\* the failure (the could-not-parse message when parseRetulPdf returned
\* null; the thrown Error's message, or 'Failed to parse fit file', when
\* extractPdfText threw), calls no calculator and leaves fitData as it was;
\* calculateStem and calculateSetup return null exactly when fitData is
\* null at the call, so after a failure they still call the calculators
\* with the fit an earlier parse stored.
C18_Amended ==
  /\ [](\A call \in lastCall : (call.invoked = {}) <=> (call.fit = {}))
  /\ [][FailureStep =>
          /\ \E file \in HookFiles :
               /\ inFlight' = inFlight (-) SetToBag({file})
               /\ Fails(file)
               /\ error' = {MessageOf(file)}
               /\ (~file.throws) => error' = {CouldNotParse}
          /\ hookFitData' = hookFitData
          /\ lastCall' = lastCall]_vars

C18_Witness ==
  /\ failedSince
  /\ error # {}
  /\ \E call \in lastCall :
       call.fn = "calculateSetup" /\ call.afterFailure /\ call.invoked # {}

---------------------------------------------------------------------------
\* What a finished activation handed to its caller, and what the same call
\* returns when it is made alone.
OutputOf(a) == IF a.fn = "calculateStemRequirements" THEN a.result ELSE a.setup
FinishedIn(a) ==
  \/ a.fn = "calculateStemRequirements" /\ a.pc = "done"
  \/ a.fn = "calculateBikeSetup" /\ a.pc = "setupDone"
AloneOutput(a) ==
  IF a.fn = "calculateStemRequirements"
  THEN calculateStemRequirements(a.fitPosition, a.newFrame, a.options)
  ELSE calculateBikeSetup(CHOOSE fd \in a.fitData : TRUE, a.newFrame)
ArgsOf(a) == <<a.fn, a.fitData, a.fitPosition, a.newFrame, a.options>>

\* C20: neither function changes its fit, frame or config argument or
\* touches anything outside the call, and each call builds its own result:
\* two callers whose calls are interleaved step by step each get what
\* their call returns when made alone.
C20_Pure ==
  /\ [](\A a \in {Activation} \cup parked :
          FinishedIn(a) => OutputOf(a) = {AloneOutput(a)})
  /\ [][/\ \/ args' = args /\ \A a \in parked' : \A b \in parked : ArgsOf(a) = ArgsOf(b)
          \/ \E b \in parked : args' = ArgsOf(b) /\ \A a \in parked' : ArgsOf(a) = args
        /\ UNCHANGED <<log, hookVars>>]_vars

C20_Witness ==
  /\ Finished
  /\ fn = "calculateBikeSetup"
  /\ \E a \in parked :
       /\ FinishedIn(a)
       /\ a.fn = "calculateStemRequirements"
       /\ a.bestSolution # bestSolution
       /\ OutputOf(a) = {AloneOutput(a)}

---------------------------------------------------------------------------
\* The default config written out; lengths in 1/LenScale mm.
DefaultConfig ==
  [ minStemLength |-> 60 * LenScale, maxStemLength |-> 140 * LenScale,
    maxSpacers |-> 50, preferredStemAngle |-> -6 ]

\* C21: the stem embedded in the result of calculateBikeSetup(fit, frame)
\* is what calculateStemRequirements(fit.fitPosition, frame) returns with
\* the default config (60, 140, 50, -6), for every fit and frame.
C21_EmbeddedStem ==
  SetupReturned =>
    /\ options = NoOptions
    /\ cfgNow = DefaultConfig
    /\ TheSetup.stem = calculateStemRequirements(TheFit, newFrame, DefaultConfig)

C21_Witness ==
  /\ SetupReturned
  /\ TheSetup.stem.spacerStack > 20
  /\ TheSetup.stem.stemLength # NaN
  /\ TheSetup.stem = calculateStemRequirements(TheFit, newFrame, DefaultConfig)

\* The notes of a result whose text is one of the two given.
NotesAmong(r, texts) == {i \in 1..Len(r.notes) : r.notes[i].text \in texts}
StackTexts == {NoteStack(1).text, NoteStack(-1).text}
ReachTexts == {NoteReach(1).text, NoteReach(-1).text}

\* C22 as stated: on the non-fallback path there is a 'higher' / 'lower'
\* note exactly when the returned |stackDelta| > 5 ('higher' when it is
\* positive) and a 'further' / 'closer' note exactly when the returned
\* |reachDelta| > 5 ('further' when it is positive).
C22_Original ==
  OnBestPath =>
    \A r \in result :
      /\ Cardinality(NotesAmong(r, StackTexts)) =
           (IF Abs(r.stackDelta) > 5 * TrigScale THEN 1 ELSE 0)
      /\ Cardinality(NotesAmong(r, ReachTexts)) =
           (IF Abs(r.reachDelta) > 5 * TrigScale THEN 1 ELSE 0)
      /\ \A i \in NotesAmong(r, StackTexts) :
           r.notes[i].text = NoteStack(r.stackDelta).text
      /\ \A i \in NotesAmong(r, ReachTexts) :
           r.notes[i].text = NoteReach(r.reachDelta).text

\* C22 amended: the notes are decided on the deltas before rounding: there
\* is a 'higher' / 'lower' note exactly when the unrounded |stackDelta| of
\* the returned triple is > 5 ('higher' when it is positive), naming that
\* magnitude rounded, and likewise a 'further' / 'closer' note for the
\* unrounded reachDelta; so a note is also present when the returned
\* (rounded) delta is exactly 5 or -5 and the unrounded one is beyond 5.
C22_Amended ==
  OnBestPath =>
    \A r \in result :
      LET stackDelta == RecomputedStackDelta(r)
          reachDelta == RecomputedReachDelta(r)
      IN  /\ Cardinality(NotesAmong(r, StackTexts)) =
               (IF Abs(stackDelta) > 5 * TrigScale THEN 1 ELSE 0)
          /\ Cardinality(NotesAmong(r, ReachTexts)) =
               (IF Abs(reachDelta) > 5 * TrigScale THEN 1 ELSE 0)
          /\ \A i \in NotesAmong(r, StackTexts) :
               /\ r.notes[i].text =
                    (IF stackDelta > 0 THEN "Handlebar will be {n}mm higher than original fit"
                     ELSE "Handlebar will be {n}mm lower than original fit")
               /\ r.notes[i].nums = <<Round(Abs(stackDelta), TrigScale)>>
          /\ \A i \in NotesAmong(r, ReachTexts) :
               /\ r.notes[i].text =
                    (IF reachDelta > 0 THEN "Handlebar will be {n}mm further than original fit"
                     ELSE "Handlebar will be {n}mm closer than original fit")
               /\ r.notes[i].nums = <<Round(Abs(reachDelta), TrigScale)>>
          /\ Abs(r.stackDelta) > 5 * TrigScale => NotesAmong(r, StackTexts) # {}
          /\ Abs(r.reachDelta) > 5 * TrigScale => NotesAmong(r, ReachTexts) # {}

C22_Witness ==
  /\ OnBestPath
  /\ \E r \in result :
       /\ r.stackDelta = -5 * TrigScale
       /\ NotesAmong(r, StackTexts) # {}
       /\ Abs(r.reachDelta) > 5 * TrigScale

\* C23: on the non-fallback path there is a 'Nearest common stem length'
\* note exactly when the returned stemLength is not a catalog length, and
\* the length it names is a catalog length nearest to stemLength, the
\* smaller of two that are equally near.
Catalog == {70, 80, 90, 100, 110, 120, 130, 140}
C23_NearestCommon ==
  OnBestPath =>
    \A r \in result :
      LET named == NotesAmong(r, {NoteNearestCommon(0).text})
      IN  /\ Cardinality(named) = (IF r.stemLength \in Catalog THEN 0 ELSE 1)
          /\ \A i \in named :
               \E n \in Catalog :
                 /\ r.notes[i].nums = <<n>>
                 /\ \A m \in Catalog :
                      \/ Abs(m - r.stemLength) > Abs(n - r.stemLength)
                      \/ Abs(m - r.stemLength) = Abs(n - r.stemLength) /\ m >= n

C23_Witness ==
  /\ OnBestPath
  /\ \E r \in result :
       /\ r.stemLength % 10 = 5
       /\ r.stemLength > 70
       /\ \E i \in 1..Len(r.notes) : r.notes[i] = NoteNearestCommon(r.stemLength - 5)

---------------------------------------------------------------------------
\* C24: the search visits the spacer heights 0, 5, 10, ... up to maxSpacers
\* and for each the stem angles -17, -16, ..., 17, every pair once and in
\* that order, and no pair outside that grid: at most (maxSpacers/5 + 1) x
\* 35 pairs, 385 with the default maxSpacers; with maxSpacers < 0 it tries
\* none and returns the fallback.
C24_Grid ==
  /\ [](LET maxSpacers == cfgNow.maxSpacers
          heights == IF maxSpacers < 0 THEN 0 ELSE maxSpacers \div 5 + 1
      IN  /\ pc = "search" =>
               /\ spacers % 5 = 0 /\ spacers >= 0 /\ spacers \div 5 <= heights
               /\ stemAngle \in -17..18
               /\ tried = 35 * (spacers \div 5) + (stemAngle + 17)
          /\ Returned =>
               /\ tried = 35 * heights
               /\ 5 * tried <= 35 * (maxSpacers + 5) \/ maxSpacers < 0
               /\ options = NoOptions => tried = 385
               /\ maxSpacers < 0 =>
                    /\ tried = 0
                    /\ \A r \in result : HasNote(r, NoteNotAchievable.text))
  /\ [][tried' # tried =>
          /\ tried' = tried + 1
          /\ spacers \in SpacerGrid(cfgNow)
          /\ stemAngle \in StemAngles]_vars

C24_Witness ==
  /\ Returned
  /\ tried = 385
  /\ OnBestPath

---------------------------------------------------------------------------
\* C25: a stem angle whose effective angle eff = headTubeAngle - 90 + a
\* has |cos(eff)| < 0.1 is skipped: trying it leaves the best candidate as
\* it was, and it is never the stem angle of the best candidate or of a
\* non-fallback result; when nothing was kept, the skipped pairs included,
\* the call returns the fallback configuration with isAchievable false.
CosTooSmall(a) == 10 * Abs(Cos(HeadTubeAngle(newFrame) - 90 + a)) < TrigScale

C25_Skipped ==
  /\ [](/\ \A b \in bestSolution : ~CosTooSmall(b.stemAngle)
        /\ OnBestPath => \A r \in result : ~CosTooSmall(r.stemAngle)
        /\ OnFallbackPath =>
             \A r \in result :
               /\ r.isAchievable = FALSE
               /\ r.stemLength = FallbackStemLength
               /\ r.stemAngle = cfgNow.preferredStemAngle
               /\ r.spacerStack = cfgNow.maxSpacers)
  /\ [][tried' # tried /\ CosTooSmall(stemAngle) =>
          /\ bestSolution' = bestSolution
          /\ stemAngle' = stemAngle + 1
          /\ spacers' = spacers]_vars

\* A call whose head tube angle puts stem angles under the guard has
\* returned a solution from the search, or the fallback.
C25_Witness ==
  /\ Returned
  /\ tried = 385
  /\ Cardinality({a \in StemAngles : CosTooSmall(a)}) = 11
  /\ \E r \in result : r.isAchievable /\ ~CosTooSmall(r.stemAngle)

---------------------------------------------------------------------------
\* C26: the best candidate carries the score of its unrounded averaged stem
\* length and that length rounded to a whole millimetre; a non-fallback
\* result returns the rounded length, deltas that are the whole-millimetre
\* roundings of the position achieved with the rounded length, and
\* isAchievable decided on that position; a fallback result returns its
\* deltas unrounded.
C26_Rounding ==
  /\ \A b \in bestSolution :
       LET unrounded == StemLengthOf(fitPosition, newFrame, b.spacers, b.stemAngle)
       IN  /\ b.error = ScoredError(fitPosition, newFrame, cfgNow,
                                    b.spacers, b.stemAngle, unrounded)
           /\ b.stemLength = Round(unrounded, LenScale)
  /\ OnBestPath =>
       \A r \in result : \A b \in bestSolution :
         LET achievedStack ==
               StackDeltaOf(fitPosition, newFrame, b.spacers, b.stemLength, b.stemAngle)
             achievedReach ==
               ReachDeltaOf(fitPosition, newFrame, b.spacers, b.stemLength, b.stemAngle)
         IN  /\ r.stemLength = b.stemLength
             /\ r.stackDelta = TrigScale * Round(achievedStack, TrigScale)
             /\ r.reachDelta = TrigScale * Round(achievedReach, TrigScale)
             /\ r.isAchievable <=>
                  /\ Abs(achievedStack) <= 10 * TrigScale
                  /\ Abs(achievedReach) <= 10 * TrigScale
  /\ OnFallbackPath =>
       \A r \in result :
         /\ r.stackDelta =
              StackDeltaOf(fitPosition, newFrame, cfgNow.maxSpacers,
                           FallbackStemLength, cfgNow.preferredStemAngle)
         /\ r.reachDelta =
              ReachDeltaOf(fitPosition, newFrame, cfgNow.maxSpacers,
                           FallbackStemLength, cfgNow.preferredStemAngle)

\* A returned best candidate whose unrounded length is no whole millimetre
\* and whose score with the rounded length would differ.
C26_Witness ==
  /\ OnBestPath
  /\ \E b \in bestSolution :
       LET unrounded == StemLengthOf(fitPosition, newFrame, b.spacers, b.stemAngle)
       IN  /\ unrounded % LenScale # 0
           /\ b.error # ScoredError(fitPosition, newFrame, cfgNow, b.spacers,
                                    b.stemAngle, b.stemLength * LenScale)
           /\ \E r \in result :
                r.stackDelta # StackDeltaOf(fitPosition, newFrame, b.spacers,
                                            b.stemLength, b.stemAngle)

---------------------------------------------------------------------------
\* C27: a parseFitFile call that fails changes only loading and error of
\* useBikeFit: its start sets loading and clears error, its failure sets
\* error and clears loading, and neither touches fitData; a fit stored by
\* an earlier parse therefore stays, and calculateStem / calculateSetup
\* called after the failure run the calculators on that fit.
ParseStep == inFlight' # inFlight
TheFitOf(call) == CHOOSE fd \in call.fit : TRUE

C27_FrameOfFailure ==
  /\ [][ParseStep /\ (FailureStep \/ BagCardinality(inFlight') > BagCardinality(inFlight)) =>
          /\ hookFitData' = hookFitData
          /\ lastCall' = lastCall
          /\ calculators' = calculators
          /\ rwgpsVars' = rwgpsVars
          /\ IF FailureStep THEN error' # {} /\ ~loading'
                            ELSE error' = {} /\ loading']_vars
  /\ [](\A call \in lastCall :
          /\ call.fit \subseteq HookFits
          /\ call.afterFailure =>
               call.invoked =
                 IF call.fn = "calculateStem"
                 THEN {Call(fd.fitPosition, call.frame, NoOptions) : fd \in call.fit}
                 ELSE {SetupCall(fd, call.frame) : fd \in call.fit})

\* A fit is loaded, a later parse has failed, and calculateStem has since
\* run the solver on the loaded fit.
C27_Witness ==
  /\ failedSince
  /\ ~loading
  /\ error = {CouldNotParse}
  /\ hookFitData = parseRetulPdf(FullText)
  /\ \E call \in lastCall :
       /\ call.fn = "calculateStem"
       /\ call.afterFailure
       /\ call.fit = hookFitData
       /\ \E c \in call.invoked : c.fitPosition = TheFitOf(call).fitPosition

---------------------------------------------------------------------------
\* C28: with parseFitFile calls overlapping in any order, loading is true
\* exactly while at least one call is in flight, and once none is in flight
\* and the call that completed last succeeded, error is null.
C28_LoadingAndError ==
  /\ loading <=> inFlight # EmptyBag
  /\ (inFlight = EmptyBag /\ ~failedSince) => error = {}

\* The two ways the statement fails: loading is false with a call still in
\* flight, and error is set although the call that completed last succeeded.
C28_LoadingDropped == ~loading /\ inFlight # EmptyBag
C28_StaleError == inFlight = EmptyBag /\ ~failedSince /\ hookFitData # {} /\ error # {}

---------------------------------------------------------------------------
\* C29: useBikeFit starts with fitData null; clearFitData sets fitData and
\* error to null; fitData leaves null only when a parseFitFile call
\* completes with a parsed record; calculateStem and calculateSetup return
\* null whenever fitData is null at the call, and run a calculator only on
\* a record some report parsed to.
CalculatorStep == lastCall' # lastCall

C29_NullUntilParsed ==
  /\ hookFitData = {} /\ lastCall = {}
  /\ [](/\ hookFitData \subseteq HookFits
        /\ \A call \in lastCall :
             /\ call.fit = {} => call.invoked = {}
             /\ call.invoked # {} => call.fit # {} /\ call.fit \subseteq HookFits)
  /\ [][CalculatorStep =>
          \A call \in lastCall' :
            /\ call.fit = hookFitData
            /\ hookFitData' = hookFitData]_vars
  /\ [][(~CalculatorStep /\ ~ParseStep) => (hookFitData' = {} /\ error' = {})]_vars
  /\ [][(hookFitData' # hookFitData /\ hookFitData' # {}) =>
          \E file \in HookFiles :
            /\ BagIn(file, inFlight)
            /\ inFlight' = inFlight (-) SetToBag({file})
            /\ ~Fails(file)
            /\ hookFitData' = parseRetulPdf(file.text)
            /\ ~failedSince']_vars

\* fitData and error are null after a failure that nothing has followed
\* but clearFitData, and calculateSetup has returned null.
C29_Witness ==
  /\ hookFitData = {}
  /\ error = {}
  /\ failedSince
  /\ inFlight = EmptyBag
  /\ \E call \in lastCall :
       call.fn = "calculateSetup" /\ call.fit = {} /\ call.invoked = {}

---------------------------------------------------------------------------
\* C30: handleOAuthCallback sends the token exchange request only when the
\* callback's state equals the state connect stored and a stored redirect
\* URI and a logged-in user exist; every callback leaves both entries
\* removed, so no state is exchanged twice, and a callback that finds no
\* stored state throws without sending anything.
CallbackStep == callbacks' # callbacks
Thrown ==
  { "Invalid OAuth state - possible CSRF attack", "Missing required OAuth data",
    "OAuth callback failed" }

C30_ExchangeGuarded ==
  /\ []((storedState = {}) <=> (storedRedirect = {}))
  /\ [](\A i, j \in DOMAIN exchanges :
          exchanges[i].state = exchanges[j].state => i = j)
  /\ [](Len(exchanges) <= connects)
  /\ [][exchanges' # exchanges =>
          /\ CallbackStep
          /\ Len(exchanges') = Len(exchanges) + 1
          /\ SubSeq(exchanges', 1, Len(exchanges)) = exchanges
          /\ LET sent == exchanges'[Len(exchanges')]
             IN  /\ storedState # {}
                 /\ sent.state = storedState
                 /\ sent.redirect_uri \in storedRedirect
                 /\ sent.user_id \in user]_vars
  /\ [][CallbackStep => (storedState' = {} /\ storedRedirect' = {})]_vars
  /\ [][(CallbackStep /\ storedState = {}) =>
          (exchanges' = exchanges /\ outcome' \in Thrown \ {"OAuth callback failed"})]_vars

\* One state was exchanged, and a callback replaying it has thrown.
C30_Witness ==
  /\ Len(exchanges) = 1
  /\ callbacks >= 2
  /\ storedState = {}
  /\ connection # {}
  /\ outcome = "Invalid OAuth state - possible CSRF attack"

=============================================================================
